---- MODULE Spec2Model ----
(***************************************************************************)
(* Model of build_wiki.py: the static wiki generator.                      *)
(*                                                                         *)
(* Strings are sequences of one-character strings, so that slugify,        *)
(* str.replace, pathlib's suffix handling and the orderings of sorted()    *)
(* are computed character by character, as Python computes them.           *)
(***************************************************************************)
EXTENDS Integers, Sequences, FiniteSets, TLC

VARIABLES
    tree,          \* the input directory: the set of relative paths of its .md files
    config,        \* the configuration dict handed to build_wiki (NoConfig for None)
    pc,            \* position of build_wiki: "start", "discovered", "render", "done", "exited"
    pages,         \* the page list returned by discover_pages
    sections,      \* the section tree returned by discover_pages (NoSections for None)
    warnings,      \* the stems reported by "Warning: config references ..."
    search_index,  \* the list build_search_index serializes
    next_page,     \* index of the page the render loop handles next
    rendered,      \* html_name of every page rendered and written so far, in order
    render_args,   \* the arguments of every render_page call so far, in order
    output,        \* the output directory: written path -> document
    exit_code,     \* process exit status (NoExit while running)
    href_in,       \* relative_href: the (from_html, to_html) pair under study
    href_out,      \* relative_href: the value returned for href_in
    index_in,      \* build_search_index: the page list under study
    index_out,     \* build_search_index: the entries produced for index_in
    call,          \* a function of the program under study and its arguments
    result         \* what the function under study returned for call

vars == <<tree, config, pc, pages, sections, warnings, search_index, next_page,
          rendered, render_args, output, exit_code, href_in, href_out, index_in,
          index_out, call, result>>

buildVars == <<tree, config, pc, pages, sections, warnings, search_index,
               next_page, rendered, render_args, output, exit_code>>

hrefVars == <<href_in, href_out>>

indexVars == <<index_in, index_out>>

callVars == <<call, result>>

-----------------------------------------------------------------------------
(* Characters and strings *)

Lowercase == <<"a","b","c","d","e","f","g","h","i","j","k","l","m",
               "n","o","p","q","r","s","t","u","v","w","x","y","z">>

Uppercase == <<"A","B","C","D","E","F","G","H","I","J","K","L","M",
               "N","O","P","Q","R","S","T","U","V","W","X","Y","Z">>

Digits == <<"0","1","2","3","4","5","6","7","8","9">>

\* The grave accent (code point 96), which a string literal cannot hold here.
Backtick == "GRAVE"

IndexIn(c, s) == CHOOSE i \in 1..Len(s) : s[i] = c

IsLower(c) == \E i \in 1..Len(Lowercase) : Lowercase[i] = c

IsUpper(c) == \E i \in 1..Len(Uppercase) : Uppercase[i] = c

IsDigit(c) == \E i \in 1..Len(Digits) : Digits[i] = c

\* The code point of a character (ASCII).
Ord(c) ==
    IF IsLower(c) THEN 96 + IndexIn(c, Lowercase)
    ELSE IF IsUpper(c) THEN 64 + IndexIn(c, Uppercase)
    ELSE IF IsDigit(c) THEN 47 + IndexIn(c, Digits)
    ELSE CASE c = "\n" -> 10
           [] c = "\t" -> 9
           [] c = " " -> 32
           [] c = "#" -> 35
           [] c = "(" -> 40
           [] c = ")" -> 41
           [] c = "*" -> 42
           [] c = "-" -> 45
           [] c = "." -> 46
           [] c = "/" -> 47
           [] c = ">" -> 62
           [] c = "[" -> 91
           [] c = "]" -> 93
           [] c = "_" -> 95
           [] c = Backtick -> 96
           [] c = "|" -> 124

\* str.lower() on one character.
LowerChar(c) == IF IsUpper(c) THEN Lowercase[IndexIn(c, Uppercase)] ELSE c

\* str.lower()
Lower(s) == [i \in 1..Len(s) |-> LowerChar(s[i])]

\* The regex class \w.
IsWordChar(c) == IsLower(c) \/ IsUpper(c) \/ IsDigit(c) \/ c = "_"

\* The regex class \s.
IsSpace(c) == c \in {" ", "\n", "\t"}

\* s < t for Python strings: lexicographic by code point.
RECURSIVE StrLess(_, _)
StrLess(s, t) ==
    IF t = <<>> THEN FALSE
    ELSE IF s = <<>> THEN TRUE
    ELSE IF s[1] # t[1] THEN Ord(s[1]) < Ord(t[1])
    ELSE StrLess(Tail(s), Tail(t))

\* s.startswith(t, i-1): t occurs in s at position i.
OccursAt(s, t, i) ==
    /\ i + Len(t) - 1 <= Len(s)
    /\ \A k \in 1..Len(t) : s[i + k - 1] = t[k]

\* The least element of a nonempty set of positions.
Least(at) == CHOOSE j \in at : \A k \in at : j <= k

\* s.find(t, from - 1) + 1: the first position at or after from where t
\* occurs in s; 0 if none.
Find(s, t, from) ==
    IF \E j \in from..Len(s) : OccursAt(s, t, j)
    THEN Least({j \in from..Len(s) : OccursAt(s, t, j)})
    ELSE 0

\* s.replace(old, new): every non-overlapping occurrence, left to right.
RECURSIVE Replace(_, _, _)
Replace(s, old, new) ==
    IF Find(s, old, 1) = 0 THEN s
    ELSE SubSeq(s, 1, Find(s, old, 1) - 1) \o new
             \o Replace(SubSeq(s, Find(s, old, 1) + Len(old), Len(s)), old, new)

\* s.strip(c): leading and trailing runs of the character c removed.
RECURSIVE StripChar(_, _)
StripChar(s, c) ==
    IF s = <<>> THEN <<>>
    ELSE IF s[1] = c THEN StripChar(Tail(s), c)
    ELSE IF s[Len(s)] = c THEN StripChar(SubSeq(s, 1, Len(s) - 1), c)
    ELSE s

\* s.split(sep) for a one-character separator.
RECURSIVE Split(_, _)
Split(s, sep) ==
    IF \A i \in 1..Len(s) : s[i] # sep THEN <<s>>
    ELSE LET i == CHOOSE j \in 1..Len(s) :
                      s[j] = sep /\ \A k \in 1..(j - 1) : s[k] # sep
         IN  <<SubSeq(s, 1, i - 1)>> \o Split(SubSeq(s, i + 1, Len(s)), sep)

\* sep.join(parts)
RECURSIVE Join(_, _)
Join(parts, sep) ==
    IF parts = <<>> THEN <<>>
    ELSE IF Len(parts) = 1 THEN parts[1]
    ELSE parts[1] \o sep \o Join(Tail(parts), sep)

DotMd == <<".", "m", "d">>

DotHtml == <<".", "h", "t", "m", "l">>

-----------------------------------------------------------------------------
(* pathlib *)

\* PurePath.parts of a relative path.
PathParts(p) == SelectSeq(Split(p, "/"), LAMBDA x : x # <<>> /\ x # <<".">>)

\* PurePath.name
PathName(p) == LET ps == PathParts(p) IN IF ps = <<>> THEN <<>> ELSE ps[Len(ps)]

\* PurePath.suffix: from the last dot of the name, unless the dot is the
\* first or the last character of the name.
PathSuffix(p) ==
    LET n == PathName(p)
        dots == {i \in 1..Len(n) : n[i] = "."}
    IN  IF dots = {} THEN <<>>
        ELSE LET d == CHOOSE i \in dots : \A j \in dots : j <= i
             IN  IF 1 < d /\ d < Len(n) THEN SubSeq(n, d, Len(n)) ELSE <<>>

\* PurePath.stem
PathStem(p) ==
    LET n == PathName(p) IN SubSeq(n, 1, Len(n) - Len(PathSuffix(p)))

\* PurePath.parent.parts
ParentParts(p) ==
    LET ps == PathParts(p) IN IF ps = <<>> THEN <<>> ELSE SubSeq(ps, 1, Len(ps) - 1)

\* str(PurePath.with_suffix(suffix))
WithSuffix(p, suffix) ==
    Join(Append(ParentParts(p), PathStem(p) \o suffix), <<"/">>)

\* p < q for pure paths: the parts are compared as lists of strings.
RECURSIVE PartsLess(_, _)
PartsLess(ps, qs) ==
    IF qs = <<>> THEN FALSE
    ELSE IF ps = <<>> THEN TRUE
    ELSE IF ps[1] # qs[1] THEN StrLess(ps[1], qs[1])
    ELSE PartsLess(Tail(ps), Tail(qs))

PathLess(p, q) == PartsLess(PathParts(p), PathParts(q))

\* sorted() of a set of paths (Path.__lt__ compares the parts).
RECURSIVE SortPaths(_)
SortPaths(S) ==
    IF S = {} THEN <<>>
    ELSE LET m == CHOOSE x \in S : \A y \in S \ {x} : PathLess(x, y)
         IN  <<m>> \o SortPaths(S \ {m})

\* sorted() of a set of strings (str.__lt__ compares code points).
RECURSIVE SortStrings(_)
SortStrings(S) ==
    IF S = {} THEN <<>>
    ELSE LET m == CHOOSE x \in S : \A y \in S \ {x} : StrLess(x, y)
         IN  <<m>> \o SortStrings(S \ {m})

-----------------------------------------------------------------------------
(* The input directory *)

S_index == <<"i", "n", "d", "e", "x">>

F_index == S_index \o DotMd

F_a == <<"a">> \o DotMd

F_a_b == <<"a", "-", "b">> \o DotMd

F_a_sl_b == <<"a", "/", "b">> \o DotMd

F_a_sl_c == <<"a", "/", "c">> \o DotMd

F_g_sl_s == <<"g", "/", "s">> \o DotMd

\* The .md files an input directory may hold (relative paths).
FileUniverse == {F_index, F_a, F_a_b, F_a_sl_b, F_a_sl_c, F_g_sl_s}

T_Home == <<"#", " ", "H", "o", "m", "e", "\n", "t", "e", "x", "t">>

T_Setup == <<"i", "n", "t", "r", "o", "\n", "#", " ", " ", "S", "e", "t", "u", "p", " ", "\n",
             "#", "#", " ", "U", "s", "e">>

T_NoTitle == <<"#", "#", " ", "s", "u", "b", "\n", "-", " ", "x">>

T_Code == <<"a", "*", "b", "\n", Backtick, Backtick, Backtick, "p", "y", "\n", "c", "\n",
            Backtick, Backtick, Backtick, "\n", "[", "l", "]", "(", "u", ")", " ", " ",
            Backtick, Backtick, Backtick, "z">>

F_long == <<"l", "o", "n", "g">> \o DotMd

F_full == <<"f", "u", "l", "l">> \o DotMd

F_list == <<"d", "/", "l", "i", "s", "t">> \o DotMd

\* Longer than the index keeps: 3001 letters.
T_Long == [i \in 1..3001 |-> "x"]

\* Exactly as long as the index keeps.
T_Full == [i \in 1..3000 |-> "y"]

\* A heading, then 1000 list items "- z": 4004 characters, 2001 once extracted.
T_List == <<"#", " ", "L", "\n">> \o
          [i \in 1..4000 |-> CASE i % 4 = 1 -> "-" [] i % 4 = 2 -> " "
                               [] i % 4 = 3 -> "z" [] OTHER -> "\n"]

\* Path.read_text(): the content of each file of the universe.
read_text(p) ==
    CASE p = F_index -> T_Home
      [] p = F_g_sl_s -> T_Setup
      [] p = F_a_sl_b -> T_Home
      [] p = F_a -> T_NoTitle
      [] p = F_a_b -> <<>>
      [] p = F_a_sl_c -> T_Code
      [] p = F_long -> T_Long
      [] p = F_full -> T_Full
      [] p = F_list -> T_List

-----------------------------------------------------------------------------
(* Page discovery & metadata *)

\* str.strip(): leading and trailing whitespace removed.
RECURSIVE Strip(_)
Strip(s) ==
    IF s = <<>> THEN <<>>
    ELSE IF IsSpace(s[1]) THEN Strip(Tail(s))
    ELSE IF IsSpace(s[Len(s)]) THEN Strip(SubSeq(s, 1, Len(s) - 1))
    ELSE s

\* ^ under re.MULTILINE: position i starts a line.
AtLineStart(s, i) == i = 1 \/ s[i - 1] = "\n"

\* The last position of the line that holds position i ("." stops at "\n").
LineEnd(s, i) ==
    LET nl == {j \in i..Len(s) : s[j] = "\n"}
    IN  IF nl = {} THEN Len(s) ELSE (CHOOSE j \in nl : \A k \in nl : j <= k) - 1

\* Ends k of a whitespace run i..k (the \s+ of a pattern) that leave the
\* following (.+) a first character.
SpaceRunEnds(s, i) ==
    {k \in i..(Len(s) - 1) :
        /\ \A j \in i..k : IsSpace(s[j])
        /\ s[k + 1] # "\n"}

\* Positions where ^#\s+(.+)$ matches.
H1Matches(s) ==
    {i \in 1..Len(s) : AtLineStart(s, i) /\ s[i] = "#" /\ SpaceRunEnds(s, i + 1) # {}}

\* extract_title: the first H1 heading, else the fallback.
extract_title(md_content, fallback) ==
    IF H1Matches(md_content) = {} THEN fallback
    ELSE LET i == CHOOSE x \in H1Matches(md_content) :
                      \A y \in H1Matches(md_content) : x <= y
             ends == SpaceRunEnds(md_content, i + 1)
             k == CHOOSE x \in ends : \A y \in ends : y <= x
         IN  Strip(SubSeq(md_content, k + 1, LineEnd(md_content, k + 1)))

\* slugify: re.sub(r"[^\w-]", "-", name.lower()).strip("-")
slugify(name) ==
    StripChar([i \in 1..Len(name) |->
                  IF IsWordChar(LowerChar(name[i])) \/ name[i] = "-"
                  THEN LowerChar(name[i]) ELSE "-"], "-")

\* The md_files dict of discover_pages: one (key, path) item per .md file, in
\* insertion order, which is the order of sorted(input_path.rglob("*.md")).
MakeMdFiles(sorted) ==
    [i \in 1..Len(sorted) |-> [key |-> WithSuffix(sorted[i], <<>>), path |-> sorted[i]]]

\* md_files for the files of a directory.
ScanMdFiles(files) == MakeMdFiles(SortPaths(files))

\* key in md_files
HasKey(md_files, key) == \E i \in 1..Len(md_files) : md_files[i].key = key

\* md_files[key]
PathOfKey(md_files, key) ==
    md_files[CHOOSE i \in 1..Len(md_files) : md_files[i].key = key].path

Unresolved == [found |-> FALSE, key |-> <<>>, path |-> <<>>]

\* return key, md_files[key]
Resolved(key, md_files) == [found |-> TRUE, key |-> key, path |-> PathOfKey(md_files, key)]

\* The lookups of _resolve_page for the reference without ".md": the exact
\* key, then Path(clean).stem.
ResolveClean(clean, md_files) ==
    IF HasKey(md_files, clean) THEN Resolved(clean, md_files)
    ELSE IF HasKey(md_files, PathStem(clean)) THEN Resolved(PathStem(clean), md_files)
    ELSE Unresolved

\* _resolve_page
resolve_page(stem_or_path, md_files) ==
    ResolveClean(Replace(stem_or_path, DotMd, <<>>), md_files)

\* No title_override (None); the empty string is as falsy as None in
\* "title_override or extract_title(...)".
NoTitle == <<>>

\* discover_pages._make_page
make_page(key, md_path, title_override) ==
    LET content == read_text(md_path)
        parent == Join(ParentParts(md_path), <<"/">>)
    IN  [md_path |-> md_path,
         html_name |-> WithSuffix(md_path, DotHtml),
         title |-> IF title_override # <<>> THEN title_override
                   ELSE extract_title(content, PathStem(md_path)),
         slug |-> slugify(key),
         rel_path |-> md_path,
         section_path |-> parent]

\* A config page entry is a string (is_str, the reference in file) or a dict
\* {"file": ..., "title": ...} (title NoTitle when the key is absent).
EntryStem(entry) == Replace(entry.file, DotMd, <<>>)

EntryTitle(entry) == IF entry.is_str THEN NoTitle ELSE entry.title

\* A build that keeps silent about a reference it cannot resolve.
WarnNotFound_silent(warned, stem) == warned

\* print(f"Warning: config references '{stem}.md' but file not found")
WarnNotFound(warned, stem) == Append(warned, stem)

\* A build that materializes a page for every reference that resolves.
NotSeen_always(key, seen) == TRUE

\* if key not in seen
NotSeen(key, seen) == key \notin seen

\* The state discover_pages threads through the config: pages, seen, the
\* warnings printed, slugs (section["pages"] of the section being processed)
\* and list (the list the section dicts are appended to).
EmptyState == [pages |-> <<>>, seen |-> {}, warnings |-> <<>>, slugs |-> <<>>, list |-> <<>>]

\* A build that leaves the page out of its section.
AddSectionPage_unlisted(page, key, st) ==
    [st EXCEPT !.pages = Append(@, page), !.seen = @ \cup {key}]

\* pages.append(page); section["pages"].append(page["slug"]); seen.add(key)
AddSectionPage(page, key, st) ==
    [st EXCEPT !.pages = Append(@, page),
               !.slugs = Append(@, page.slug),
               !.seen = @ \cup {key}]

\* The body of the entry loop of _process_section_config after _resolve_page.
SectionEntryResolved(entry, stem, resolved, md_files, st) ==
    IF resolved.found
    THEN IF NotSeen(resolved.key, st.seen)
         THEN AddSectionPage(make_page(resolved.key, resolved.path, EntryTitle(entry)),
                             resolved.key, st)
         ELSE st
    ELSE [st EXCEPT !.warnings = WarnNotFound(@, stem)]

\* One iteration of the entry loop of _process_section_config.
SectionEntryStep(entry, md_files, st) ==
    SectionEntryResolved(entry, EntryStem(entry),
                         resolve_page(EntryStem(entry), md_files), md_files, st)

RECURSIVE SectionEntries(_, _, _)
SectionEntries(entries, md_files, st) ==
    IF entries = <<>> THEN st
    ELSE SectionEntries(Tail(entries), md_files,
                        SectionEntryStep(entries[1], md_files, st))

S_Untitled == <<"U", "n", "t", "i", "t", "l", "e", "d">>

\* section_cfg.get("title", "Untitled")
SectionTitle(section_cfg) ==
    IF section_cfg.has_title THEN section_cfg.title ELSE S_Untitled

\* The section dict _process_section_config returns, appended to the list of
\* its caller; own is the state after the section's own entries, subs the
\* state after its subsections.
CloseSection(section_cfg, st, own, subs) ==
    [subs EXCEPT !.slugs = st.slugs,
                 !.list = Append(st.list,
                                 [title |-> SectionTitle(section_cfg),
                                  pages |-> own.slugs,
                                  subsections |-> subs.list])]

RECURSIVE ProcessSectionList(_, _, _)
RECURSIVE process_section_config(_, _, _)

\* The subsection loop of _process_section_config, after the entry loop.
WithSubsections(section_cfg, md_files, st, own) ==
    CloseSection(section_cfg, st, own,
                 ProcessSectionList(section_cfg.subsections, md_files,
                                    [own EXCEPT !.list = <<>>]))

\* discover_pages._process_section_config, with the append of its result to
\* the caller's list.
process_section_config(section_cfg, md_files, st) ==
    WithSubsections(section_cfg, md_files, st,
                    SectionEntries(section_cfg.pages, md_files,
                                   [st EXCEPT !.slugs = <<>>]))

\* for section_cfg in ...: append(_process_section_config(section_cfg))
ProcessSectionList(cfgs, md_files, st) ==
    IF cfgs = <<>> THEN st
    ELSE ProcessSectionList(Tail(cfgs), md_files,
                            process_section_config(cfgs[1], md_files, st))

\* pages.append(_make_page(...)); seen.add(key)
AddFlatPage(page, key, st) ==
    [st EXCEPT !.pages = Append(@, page), !.seen = @ \cup {key}]

\* The body of the flat "pages" loop of discover_pages after _resolve_page.
FlatEntryResolved(entry, stem, resolved, md_files, st) ==
    IF resolved.found
    THEN IF NotSeen(resolved.key, st.seen)
         THEN AddFlatPage(make_page(resolved.key, resolved.path, EntryTitle(entry)),
                          resolved.key, st)
         ELSE st
    ELSE [st EXCEPT !.warnings = WarnNotFound(@, stem)]

\* One iteration of the flat "pages" loop of discover_pages.
FlatEntryStep(entry, md_files, st) ==
    FlatEntryResolved(entry, EntryStem(entry),
                      resolve_page(EntryStem(entry), md_files), md_files, st)

RECURSIVE FlatEntries(_, _, _)
FlatEntries(entries, md_files, st) ==
    IF entries = <<>> THEN st
    ELSE FlatEntries(Tail(entries), md_files, FlatEntryStep(entries[1], md_files, st))

\* config is None
NoConfig == [present |-> FALSE, keys |-> {}, sections |-> <<>>, pages |-> <<>>]

\* sections is None
NoSections == [has |-> FALSE, list |-> <<>>]

\* "if config:" -- neither None nor an empty dict.
Truthy(cfg) == cfg.present /\ cfg.keys # {}

\* sections = [] ... sections.append(...)
ConfiguredSections(st) ==
    [pages |-> st.pages, seen |-> st.seen, warnings |-> st.warnings,
     sections |-> [has |-> TRUE, list |-> st.list]]

\* sections stays None
Unsectioned(st) ==
    [pages |-> st.pages, seen |-> st.seen, warnings |-> st.warnings,
     sections |-> NoSections]

\* The "Process config" block of discover_pages: [pages, seen, warnings, sections].
ProcessConfig(cfg, md_files) ==
    IF Truthy(cfg) /\ "sections" \in cfg.keys
    THEN ConfiguredSections(ProcessSectionList(cfg.sections, md_files, EmptyState))
    ELSE IF Truthy(cfg) /\ "pages" \in cfg.keys
    THEN Unsectioned(FlatEntries(cfg.pages, md_files, EmptyState))
    ELSE Unsectioned(EmptyState)

\* The items of md_files, in dict order, whose key is not in seen.
Remaining(md_files, seen) == SelectSeq(md_files, LAMBDA f : f.key \notin seen)

\* pages.append(_make_page(key, md_path)) for each item
MakePages(items) ==
    [i \in 1..Len(items) |-> make_page(items[i].key, items[i].path, NoTitle)]

\* "Append any remaining .md files not covered by config"
AppendRemaining(page_list, md_files, seen) ==
    page_list \o MakePages(Remaining(md_files, seen))

S_Overview == <<"O", "v", "e", "r", "v", "i", "e", "w">>

\* The longest prettified directory name shown in upper case.
AcronymMaxLen == 4

\* str.isalpha()
IsAlpha(s) == s # <<>> /\ \A i \in 1..Len(s) : IsLower(s[i]) \/ IsUpper(s[i])

UpperChar(c) == IF IsLower(c) THEN Uppercase[IndexIn(c, Lowercase)] ELSE c

\* str.upper()
Upper(s) == [i \in 1..Len(s) |-> UpperChar(s[i])]

\* str.title(): a letter is upper-cased after a non-letter, lower-cased after a letter.
TitleCase(s) ==
    [i \in 1..Len(s) |->
        IF i > 1 /\ (IsLower(s[i - 1]) \/ IsUpper(s[i - 1]))
        THEN LowerChar(s[i]) ELSE UpperChar(s[i])]

PrettyCase_title(pretty) == TitleCase(pretty)

\* "if len(pretty) <= 4 and pretty.isalpha(): upper() else: title()"
PrettyCase(pretty) ==
    IF Len(pretty) <= AcronymMaxLen /\ IsAlpha(pretty)
    THEN Upper(pretty) ELSE TitleCase(pretty)

\* The display title of a directory section.
Prettify(dir_name) ==
    PrettyCase(Replace(Replace(dir_name, <<"-">>, <<" ">>), <<"_">>, <<" ">>))

SlugsOf(page_list) == [i \in 1..Len(page_list) |-> page_list[i].slug]

\* root_slugs: the slugs of the root-level pages, in page order.
RootSlugs(page_list) ==
    SlugsOf(SelectSeq(page_list, LAMBDA p : p.section_path = <<>>))

\* dir_groups[dir_name]: the slugs of the pages of one directory, in page order.
DirGroup(page_list, dir_name) ==
    SlugsOf(SelectSeq(page_list, LAMBDA p : p.section_path = dir_name))

\* dir_groups.keys()
DirNames(page_list) ==
    {page_list[i].section_path : i \in 1..Len(page_list)} \ {<<>>}

\* The directories in the order dir_groups received them: by first page.
SortedDirNames_insertion(page_list) ==
    LET first == {i \in 1..Len(page_list) :
                     /\ page_list[i].section_path # <<>>
                     /\ \A j \in 1..(i - 1) :
                            page_list[j].section_path # page_list[i].section_path}
    IN  [k \in 1..Cardinality(first) |->
            page_list[CHOOSE i \in first :
                          Cardinality({j \in first : j < i}) = k - 1].section_path]

\* sorted(dir_groups.keys())
SortedDirNames(page_list) == SortStrings(DirNames(page_list))

\* "Root-level pages first (as a section if there are other sections)"
OverviewSections(page_list) ==
    IF RootSlugs(page_list) # <<>> /\ DirNames(page_list) # {}
    THEN <<[title |-> S_Overview, pages |-> RootSlugs(page_list), subsections |-> <<>>]>>
    ELSE <<>>

\* "Each subdirectory becomes a section"
DirSections(page_list, dirs) ==
    [i \in 1..Len(dirs) |->
        [title |-> Prettify(dirs[i]),
         pages |-> DirGroup(page_list, dirs[i]),
         subsections |-> <<>>]]

\* The "Auto-generate sections from directory structure" block of discover_pages.
AutoSections(page_list, secs) ==
    IF ~secs.has /\ \E i \in 1..Len(page_list) : page_list[i].section_path # <<>>
    THEN IF DirNames(page_list) = {} THEN NoSections
         ELSE [has |-> TRUE,
               list |-> OverviewSections(page_list) \o
                        DirSections(page_list, SortedDirNames(page_list))]
    ELSE secs

\* The return value of discover_pages, with the warnings it printed.
Discovered(page_list, c) ==
    [pages |-> page_list,
     sections |-> AutoSections(page_list, c.sections),
     warnings |-> c.warnings]

\* discover_pages after the config block (c is what that block left).
AfterConfig(md_files, c) ==
    Discovered(AppendRemaining(c.pages, md_files, c.seen), c)

\* discover_pages after the scan of the input directory.
AfterScan(md_files, cfg) == AfterConfig(md_files, ProcessConfig(cfg, md_files))

\* discover_pages(input_dir, config): [pages, sections, warnings].
discover_pages(files, cfg) == AfterScan(ScanMdFiles(files), cfg)

-----------------------------------------------------------------------------
(* HTML generation: relative links *)

S_up == <<".", ".">>

\* A relative_href that counts the components of the path, file name included.
relative_href_parts(from_html, to_html) ==
    Join([i \in 1..Len(PathParts(from_html)) |-> S_up] \o <<to_html>>, <<"/">>)

\* relative_href(from_html, to_html)
relative_href(from_html, to_html) ==
    LET from_parts == ParentParts(from_html)
        to_path == Join(PathParts(to_html), <<"/">>)
        prefix == Join([i \in 1..Len(from_parts) |-> S_up], <<"/">>)
    IN  IF prefix # <<>> THEN prefix \o <<"/">> \o to_path ELSE to_path

-----------------------------------------------------------------------------
(* Search index *)

Fence == <<Backtick, Backtick, Backtick>>

\* Positions where the pattern ```[\s\S]*?``` matches: an opening fence with a
\* closing fence after it.
FenceStarts(s) ==
    {i \in 1..Len(s) : OccursAt(s, Fence, i) /\
                       \E j \in (i + 3)..Len(s) : OccursAt(s, Fence, j)}

\* re.sub(r"```[\s\S]*?```", "", s): each opening fence up to the first closing one.
RECURSIVE RemoveFences(_)
RemoveFences(s) ==
    IF FenceStarts(s) = {} THEN s
    ELSE LET i == CHOOSE x \in FenceStarts(s) : \A y \in FenceStarts(s) : x <= y
             closes == {j \in (i + 3)..Len(s) : OccursAt(s, Fence, j)}
             j == CHOOSE x \in closes : \A y \in closes : x <= y
         IN  SubSeq(s, 1, i - 1) \o RemoveFences(SubSeq(s, j + 3, Len(s)))

\* The characters of the class [#*`\[\]\(\)|>-].
MarkdownSyntax == {"#", "*", Backtick, "[", "]", "(", ")", "|", ">", "-"}

\* re.sub(r"[#*`\[\]\(\)|>-]", " ", s)
BlankSyntax(s) == [i \in 1..Len(s) |-> IF s[i] \in MarkdownSyntax THEN " " ELSE s[i]]

\* re.sub(r"\s+", " ", s): the first character of each whitespace run becomes
\* a space, the rest of the run is dropped.
CollapseSpace(s) ==
    LET marked == [i \in 1..Len(s) |->
                      [ch |-> IF IsSpace(s[i]) THEN " " ELSE s[i],
                       keep |-> ~IsSpace(s[i]) \/ i = 1 \/ ~IsSpace(s[i - 1])]]
        kept == SelectSeq(marked, LAMBDA m : m.keep)
    IN  [i \in 1..Len(kept) |-> kept[i].ch]

\* extract_text_content
extract_text_content(md_content) ==
    Strip(CollapseSpace(BlankSyntax(RemoveFences(md_content))))

\* The per-page limit of the indexed text.
TextLimit == 3000

\* An index that keeps the whole text.
Truncate_whole(text, n) == text

\* text[:n]
Truncate(text, n) == SubSeq(text, 1, IF Len(text) < n THEN Len(text) ELSE n)

\* One entry of the search index.
IndexEntry(page) ==
    [title |-> page.title,
     url |-> page.html_name,
     text |-> Truncate(extract_text_content(read_text(page.md_path)), TextLimit)]

\* build_search_index: the list that json.dumps serializes.
build_search_index(page_list) ==
    [i \in 1..Len(page_list) |-> IndexEntry(page_list[i])]

-----------------------------------------------------------------------------
(* The configurations handed to build_wiki *)

\* A page entry given as a string.
StrEntry(ref) == [is_str |-> TRUE, file |-> ref, title |-> NoTitle]

\* A page entry given as {"file": ref, "title": title}.
DictEntry(ref, title) == [is_str |-> FALSE, file |-> ref, title |-> title]

R_index == S_index

R_a_sl_b_md == <<"a", "/", "b">> \o DotMd

R_a_b == <<"a", "-", "b">>

R_b == <<"b">>

R_x_sl_a == <<"x", "/", "a">>

R_nope == <<"n", "o", "p", "e">>

R_g_sl_s == <<"g", "/", "s">>

S_Start == <<"S", "t", "a", "r", "t">>

\* The entries of a flat "pages" list.
FlatEntrySet ==
    {StrEntry(R_index), StrEntry(R_a_sl_b_md), StrEntry(R_a_b), StrEntry(R_b),
     StrEntry(R_x_sl_a), StrEntry(R_nope), DictEntry(R_g_sl_s, S_Start)}

\* The longest flat "pages" list.
MaxRefs == 2

RECURSIVE SeqsUpTo(_, _)
SeqsUpTo(S, n) ==
    IF n = 0 THEN {<<>>}
    ELSE LET shorter == SeqsUpTo(S, n - 1)
         IN  shorter \cup {Append(q, x) : q \in shorter, x \in S}

FlatConfigs ==
    {[present |-> TRUE, keys |-> {"pages"}, sections |-> <<>>, pages |-> q] :
        q \in SeqsUpTo(FlatEntrySet, MaxRefs)}

\* The "pages" lists of the sections of a hierarchical config.
SectionPageLists ==
    {<<StrEntry(R_index), StrEntry(R_nope)>>,
     <<StrEntry(R_a_sl_b_md), StrEntry(R_a_b)>>,
     <<DictEntry(R_g_sl_s, S_Start), StrEntry(R_index)>>,
     <<StrEntry(R_x_sl_a), StrEntry(R_b)>>}

S_Guide == <<"G", "u", "i", "d", "e">>

S_Deep == <<"D", "e", "e", "p">>

\* {"sections": [{"title": "Guide", "pages": p1,
\*                "subsections": [{"title": "Deep", "pages": p2}]},
\*               {"pages": p3}]}
SectionsConfig(p1, p2, p3) ==
    [present |-> TRUE, keys |-> {"sections"}, pages |-> <<>>,
     sections |->
        <<[has_title |-> TRUE, title |-> S_Guide, pages |-> p1,
           subsections |-> <<[has_title |-> TRUE, title |-> S_Deep, pages |-> p2,
                              subsections |-> <<>>]>>],
          [has_title |-> FALSE, title |-> <<>>, pages |-> p3, subsections |-> <<>>]>>]

HierConfigs ==
    {SectionsConfig(p1, p2, p3) :
        p1 \in SectionPageLists, p2 \in SectionPageLists, p3 \in SectionPageLists}

\* {}, {"title": ...} and {"sections": []}
OtherConfigs ==
    {[present |-> TRUE, keys |-> {}, sections |-> <<>>, pages |-> <<>>],
     [present |-> TRUE, keys |-> {"title"}, sections |-> <<>>, pages |-> <<>>],
     [present |-> TRUE, keys |-> {"sections"}, sections |-> <<>>, pages |-> <<>>]}

Configs == {NoConfig} \cup FlatConfigs \cup HierConfigs \cup OtherConfigs

-----------------------------------------------------------------------------
(* Main build logic *)

NoExit == -1

S_index_html == S_index \o DotHtml

\* The document render_page returns for a page.
PageDoc(page) ==
    [kind |-> "page", source |-> page.rel_path, title |-> page.title, target |-> <<>>]

\* The document build_wiki writes to index.html.
RedirectDoc(first_page) ==
    [kind |-> "redirect", source |-> <<>>, title |-> <<>>, target |-> first_page]

\* Path.write_text: the file at path now holds doc, whatever it held.
WriteText(out, path, doc) ==
    [p \in DOMAIN out \cup {path} |-> IF p = path THEN doc ELSE out[p]]

\* A build that goes on whatever discovery returned.
NoPages_never(page_list) == FALSE

\* The render loop handing less than the whole page list to render_page: the
\* pages up to the one being rendered.
RenderArgs_partial(page) ==
    [page |-> page.html_name,
     pages |-> SubSeq(pages, 1, next_page),
     sections |-> sections,
     search_index_json |-> search_index]

\* render_page(md_content=..., pages=pages, sections=sections,
\*             current_page=page, search_index_json=search_index_json)
RenderArgs(page) ==
    [page |-> page.html_name,
     pages |-> pages,
     sections |-> sections,
     search_index_json |-> search_index]

\* "if not pages:"
NoPages(page_list) == page_list = <<>>

\* No function is under study.
NoCall == [fn |-> "none"]

NoResult == [done |-> FALSE]

Idle ==
    /\ href_in = [from |-> <<>>, to |-> <<>>]
    /\ href_out = [done |-> FALSE, href |-> <<>>]
    /\ index_in = <<>>
    /\ index_out = [done |-> FALSE, index |-> <<>>]
    /\ call = NoCall
    /\ result = NoResult

NotBuilding ==
    /\ tree = {}
    /\ config = NoConfig
    /\ pc = "idle"
    /\ pages = <<>>
    /\ sections = NoSections
    /\ warnings = <<>>
    /\ search_index = <<>>
    /\ next_page = 1
    /\ rendered = <<>>
    /\ render_args = <<>>
    /\ output = <<>>
    /\ exit_code = NoExit

Init ==
    /\ tree \in SUBSET FileUniverse
    /\ config \in Configs
    /\ pc = "start"
    /\ pages = <<>>
    /\ sections = NoSections
    /\ warnings = <<>>
    /\ search_index = <<>>
    /\ next_page = 1
    /\ rendered = <<>>
    /\ render_args = <<>>
    /\ output = <<>>
    /\ exit_code = NoExit
    /\ Idle

\* pages, sections = discover_pages(input_dir, config)
DiscoverPages ==
    /\ pc = "start"
    /\ \E r \in {discover_pages(tree, config)} :
           /\ pages' = r.pages
           /\ sections' = r.sections
           /\ warnings' = r.warnings
    /\ pc' = "discovered"
    /\ UNCHANGED <<tree, config, search_index, next_page, rendered, render_args, output,
                   exit_code>>
    /\ UNCHANGED <<hrefVars, indexVars, callVars>>

\* if not pages: print(...); sys.exit(1)
ExitNoPages ==
    /\ pc = "discovered"
    /\ NoPages(pages)
    /\ exit_code' = 1
    /\ pc' = "exited"
    /\ UNCHANGED <<tree, config, pages, sections, warnings, search_index, next_page,
                   rendered, render_args, output>>
    /\ UNCHANGED <<hrefVars, indexVars, callVars>>

\* search_index_json = build_search_index(pages)
BuildSearchIndex ==
    /\ pc = "discovered"
    /\ ~NoPages(pages)
    /\ search_index' = build_search_index(pages)
    /\ next_page' = 1
    /\ pc' = "render"
    /\ UNCHANGED <<tree, config, pages, sections, warnings, rendered, render_args, output,
                   exit_code>>
    /\ UNCHANGED <<hrefVars, indexVars, callVars>>

\* One iteration of "for page in pages": render the page and write it.
RenderPage ==
    /\ pc = "render"
    /\ next_page <= Len(pages)
    /\ \E page \in {pages[next_page]} :
           /\ output' = WriteText(output, page.html_name, PageDoc(page))
           /\ rendered' = Append(rendered, page.html_name)
           /\ render_args' = Append(render_args, RenderArgs(page))
    /\ next_page' = next_page + 1
    /\ UNCHANGED <<tree, config, pc, pages, sections, warnings, search_index, exit_code>>
    /\ UNCHANGED <<hrefVars, indexVars, callVars>>

\* After the loop: "if pages:" write index.html, the redirect to pages[0];
\* build_wiki returns and the process ends with status 0.
WriteRedirect ==
    /\ pc = "render"
    /\ next_page > Len(pages)
    /\ output' = IF pages # <<>>
                 THEN WriteText(output, S_index_html, RedirectDoc(pages[1].html_name))
                 ELSE output
    /\ exit_code' = 0
    /\ pc' = "done"
    /\ UNCHANGED <<tree, config, pages, sections, warnings, search_index, next_page,
                   rendered, render_args>>
    /\ UNCHANGED <<hrefVars, indexVars, callVars>>

Next ==
    \/ DiscoverPages
    \/ ExitNoPages
    \/ BuildSearchIndex
    \/ RenderPage
    \/ WriteRedirect

Spec == Init /\ [][Next]_vars

-----------------------------------------------------------------------------
(* relative_href on its own *)

\* The deepest directory nesting of the paths handed to relative_href.
MaxDepth == 5

S_docs == <<"d", "o", "c", "s">>

S_page_html == <<"p", "a", "g", "e">> \o DotHtml

\* Output paths: a file below zero to MaxDepth directories.
HrefPaths ==
    {Join(Append(dirs, S_page_html), <<"/">>) :
        dirs \in SeqsUpTo({<<"a">>, S_docs}, MaxDepth)}

InitHref ==
    /\ NotBuilding
    /\ href_in \in {[from |-> a, to |-> b] : a \in HrefPaths, b \in HrefPaths}
    /\ href_out = [done |-> FALSE, href |-> <<>>]
    /\ index_in = <<>>
    /\ index_out = [done |-> FALSE, index |-> <<>>]
    /\ call = NoCall
    /\ result = NoResult

\* href = relative_href(current_html, page["html_name"])
CallRelativeHref ==
    /\ ~href_out.done
    /\ href_out' = [done |-> TRUE, href |-> relative_href(href_in.from, href_in.to)]
    /\ UNCHANGED <<href_in, buildVars, indexVars, callVars>>

NextHref == CallRelativeHref

SpecHref == InitHref /\ [][NextHref]_vars

-----------------------------------------------------------------------------
(* build_search_index on its own *)

\* The longest page list handed to build_search_index.
MaxIndexPages == 2

\* Pages as _make_page builds them, some of files longer than the index keeps.
IndexPages ==
    {make_page(WithSuffix(f, <<>>), f, NoTitle) :
        f \in {F_index, F_a_sl_c, F_long, F_full, F_list}}
    \cup {make_page(WithSuffix(f, <<>>), f, S_Start) : f \in {F_index, F_a_sl_c}}

InitIndex ==
    /\ NotBuilding
    /\ href_in = [from |-> <<>>, to |-> <<>>]
    /\ href_out = [done |-> FALSE, href |-> <<>>]
    /\ index_in \in SeqsUpTo(IndexPages, MaxIndexPages)
    /\ index_out = [done |-> FALSE, index |-> <<>>]
    /\ call = NoCall
    /\ result = NoResult

\* search_index_json = build_search_index(pages)
CallBuildSearchIndex ==
    /\ ~index_out.done
    /\ index_out' = [done |-> TRUE, index |-> build_search_index(index_in)]
    /\ UNCHANGED <<index_in, buildVars, hrefVars, callVars>>

NextIndex == CallBuildSearchIndex

SpecIndex == InitIndex /\ [][NextIndex]_vars

-----------------------------------------------------------------------------
(* Two runs of build_wiki on one input *)

\* input_path.rglob("*.md") yields the files in the order the file system
\* returns them: any enumeration of the tree.
RglobListings(files) ==
    {q \in [1..Cardinality(files) -> files] : \A i, j \in DOMAIN q : i # j => q[i] # q[j]}

\* A build that takes the files as rglob yields them.
SortedListing_asis(listing) == listing

\* sorted(input_path.rglob("*.md"))
SortedListing(listing) == SortPaths({listing[i] : i \in DOMAIN listing})

\* The md_files dict built from a listing.
ScanListing(listing) == MakeMdFiles(SortedListing(listing))

\* The files written by the render loop for page_list[1..n].
RECURSIVE WritePages(_, _)
WritePages(page_list, n) ==
    IF n = 0 THEN <<>>
    ELSE WriteText(WritePages(page_list, n - 1), page_list[n].html_name,
                   PageDoc(page_list[n]))

\* What a run of build_wiki leaves: its exit status, the page list and the
\* section tree, the serialized index given to every page, the output directory.
Outcome(d) ==
    IF NoPages(d.pages)
    THEN [exit_code |-> 1, pages |-> d.pages, sections |-> d.sections,
          search_index |-> <<>>, output |-> <<>>]
    ELSE [exit_code |-> 0, pages |-> d.pages, sections |-> d.sections,
          search_index |-> build_search_index(d.pages),
          output |-> WriteText(WritePages(d.pages, Len(d.pages)), S_index_html,
                               RedirectDoc(d.pages[1].html_name))]

\* build_wiki run on the files in the order of listing.
RunBuildWiki(listing, cfg) == Outcome(AfterScan(ScanListing(listing), cfg))

\* The most files of a tree built twice.
MaxTwiceFiles == 3

TwiceConfigs ==
    {NoConfig,
     [present |-> TRUE, keys |-> {"pages"}, sections |-> <<>>,
      pages |-> <<DictEntry(R_g_sl_s, S_Start), StrEntry(R_a_b)>>],
     SectionsConfig(<<StrEntry(R_index), StrEntry(R_nope)>>,
                    <<StrEntry(R_x_sl_a), StrEntry(R_b)>>,
                    <<DictEntry(R_g_sl_s, S_Start), StrEntry(R_index)>>)}

InitTwice ==
    /\ NotBuilding
    /\ href_in = [from |-> <<>>, to |-> <<>>]
    /\ href_out = [done |-> FALSE, href |-> <<>>]
    /\ index_in = <<>>
    /\ index_out = [done |-> FALSE, index |-> <<>>]
    /\ call \in {[fn |-> "build_wiki", tree |-> t, config |-> c] :
                    t \in {x \in SUBSET FileUniverse : Cardinality(x) <= MaxTwiceFiles},
                    c \in TwiceConfigs}
    /\ result = [done |-> FALSE, runs |-> <<>>]

\* One more run of build_wiki(input_dir, config=config) on the same input.
BuildAgain ==
    /\ call.fn = "build_wiki"
    /\ Len(result.runs) < 2
    /\ \E listing \in RglobListings(call.tree) :
           result' = [done |-> Len(result.runs) = 1,
                      runs |-> Append(result.runs,
                                      [listing |-> listing,
                                       outcome |-> RunBuildWiki(listing, call.config)])]
    /\ UNCHANGED <<call, buildVars, hrefVars, indexVars>>

NextTwice == BuildAgain

SpecTwice == InitTwice /\ [][NextTwice]_vars

-----------------------------------------------------------------------------
(* Markdown -> HTML conversion *)

NL == <<"\n">>

\* The lines of a text: text.split("\n").
Lines(s) == Split(s, "\n")

\* A converter that leaves "<" as it is.
EscapeHtml_partial(s) ==
    Replace(Replace(s, <<"&">>, <<"&", "a", "m", "p", ";">>), <<">">>, <<"&", "g", "t", ";">>)

\* html.replace("&", "&amp;").replace("<", "&lt;").replace(">", "&gt;")
EscapeHtml(s) ==
    Replace(Replace(Replace(s, <<"&">>, <<"&", "a", "m", "p", ";">>), <<"<">>, <<"&", "l", "t", ";">>), <<">">>, <<"&", "g", "t", ";">>)

\* html.replace(f"&lt;{tag}&gt;", f"<{tag}>") and
\* html.replace(f"&lt;/{tag}&gt;", f"</{tag}>") for one tag.
RestoreTag(s, tag) ==
    Replace(Replace(s, <<"&", "l", "t", ";">> \o tag \o <<"&", "g", "t", ";">>, <<"<">> \o tag \o <<">">>),
            <<"&", "l", "t", ";", "/">> \o tag \o <<"&", "g", "t", ";">>, <<"<", "/">> \o tag \o <<">">>)

\* for tag in ("details", "summary")
RestoreDetails(s) == RestoreTag(RestoreTag(s, <<"d", "e", "t", "a", "i", "l", "s">>), <<"s", "u", "m", "m", "a", "r", "y">>)

\* re.sub(r"[^\w\s-]", "", s)
KeepAnchorChars(s) == SelectSeq(s, LAMBDA c : IsWordChar(c) \/ IsSpace(c) \/ c = "-")

\* re.sub(r"\s+", "-", s): every whitespace run becomes one hyphen.
HyphenateSpace(s) ==
    LET marked == [i \in 1..Len(s) |->
                      [ch |-> IF IsSpace(s[i]) THEN "-" ELSE s[i],
                       keep |-> ~IsSpace(s[i]) \/ i = 1 \/ ~IsSpace(s[i - 1])]]
        kept == SelectSeq(marked, LAMBDA m : m.keep)
    IN  [i \in 1..Len(kept) |-> kept[i].ch]

\* anchor = re.sub(r"[^\w\s-]", "", text.lower())
\* anchor = re.sub(r"\s+", "-", anchor).strip("-")
AnchorOf(text) == StripChar(HyphenateSpace(KeepAnchorChars(Lower(text))), "-")

\* f'<h{level} id="{anchor}">{text}</h{level}>'
HeadingElement(level, anchor, text) ==
    <<"<", "h">> \o <<Digits[level + 1]>> \o <<" ", "i", "d", "=", "\"">> \o anchor \o <<"\"", ">">> \o text
        \o <<"<", "/", "h">> \o <<Digits[level + 1]>> \o <<">">>

\* _heading_replacer(level)(match), group1 being match.group(1).
heading_replacer(level, group1) ==
    HeadingElement(level, AnchorOf(Strip(group1)), Strip(group1))

\* The "# " prefix of a heading of a level: level times "#", then a space.
HeadingPrefix(level) == [i \in 1..(level + 1) |-> IF i <= level THEN "#" ELSE " "]

\* One line under re.sub(r"^#{level} (.+)$", _heading_replacer(level), ...).
HeadingLine(line, level) ==
    IF OccursAt(line, HeadingPrefix(level), 1) /\ Len(line) > level + 1
    THEN heading_replacer(level, SubSeq(line, level + 2, Len(line)))
    ELSE line

HeadingLines(lines, level) ==
    Join([i \in 1..Len(lines) |-> HeadingLine(lines[i], level)], NL)

\* re.sub(r"^#{level} (.+)$", _heading_replacer(level), html, flags=re.MULTILINE)
Headings(s, level) == HeadingLines(Lines(s), level)

\* The four heading substitutions, level 4 first.
AllHeadings(s) == Headings(Headings(Headings(Headings(s, 4), 3), 2), 1)

\* One line under re.sub(r"^---+$", "<hr>", ...).
RuleLine(line) ==
    IF Len(line) >= 3 /\ \A i \in 1..Len(line) : line[i] = "-" THEN <<"<", "h", "r", ">">> ELSE line

RuleLines(lines) == Join([i \in 1..Len(lines) |-> RuleLine(lines[i])], NL)

\* re.sub(r"^---+$", "<hr>", html, flags=re.MULTILINE)
HorizontalRules(s) == RuleLines(Lines(s))

\* Where the (.*?) that starts at position from ends: the first position at or
\* after from where delim occurs with no line break before it; 0 if none.
LazyClose(s, delim, from) ==
    LET ends == {j \in from..Len(s) :
                    /\ OccursAt(s, delim, j)
                    /\ \A k \in from..(j - 1) : s[k] # "\n"}
    IN  IF ends = {} THEN 0 ELSE CHOOSE j \in ends : \A k \in ends : j <= k

\* delim(.*?)delim matches at position i.
EmphasisAt(s, delim, i) ==
    OccursAt(s, delim, i) /\ LazyClose(s, delim, i + Len(delim)) # 0

\* The first match of delim(.*?)delim replaced by open\1close, and the
\* substitution carried on after it.
RECURSIVE Emphasis(_, _, _, _)
EmphasisFrom(s, delim, open, close, i) ==
    SubSeq(s, 1, i - 1) \o open
        \o SubSeq(s, i + Len(delim), LazyClose(s, delim, i + Len(delim)) - 1) \o close
        \o Emphasis(SubSeq(s, LazyClose(s, delim, i + Len(delim)) + Len(delim), Len(s)),
                    delim, open, close)

\* re.sub of delim(.*?)delim by open\1close: leftmost matches, left to right.
Emphasis(s, delim, open, close) ==
    IF \E i \in 1..Len(s) : EmphasisAt(s, delim, i)
    THEN EmphasisFrom(s, delim, open, close,
                      Least({i \in 1..Len(s) : EmphasisAt(s, delim, i)}))
    ELSE s

\* The "Bold & italic" substitutions: ***, then **, then *.
BoldItalic(s) ==
    Emphasis(Emphasis(Emphasis(s, <<"*", "*", "*">>, <<"<", "s", "t", "r", "o", "n", "g", ">", "<", "e", "m", ">">>, <<"<", "/", "e", "m", ">", "<", "/", "s", "t", "r", "o", "n", "g", ">">>),
                      <<"*", "*">>, <<"<", "s", "t", "r", "o", "n", "g", ">">>, <<"<", "/", "s", "t", "r", "o", "n", "g", ">">>),
             <<"*">>, <<"<", "e", "m", ">">>, <<"<", "/", "e", "m", ">">>)

\* The first position at or after from where the character c is; 0 if none.
FirstIndex(s, c, from) ==
    LET at == {j \in from..Len(s) : s[j] = c}
    IN  IF at = {} THEN 0 ELSE CHOOSE j \in at : \A k \in at : j <= k

\* href.endswith(suffix)
EndsWith(s, suffix) == Len(suffix) <= Len(s) /\ OccursAt(s, suffix, Len(s) - Len(suffix) + 1)

\* part in s
Contains(s, part) == \E i \in 1..Len(s) : OccursAt(s, part, i)

\* The href _link_replacer emits for the target of a link.
RewriteHref(href) ==
    IF EndsWith(href, DotMd) THEN SubSeq(href, 1, Len(href) - 3) \o DotHtml
    ELSE IF Contains(href, DotMd \o <<"#">>) THEN Replace(href, DotMd \o <<"#">>, DotHtml \o <<"#">>)
    ELSE href

\* _link_replacer(match), text and href being match.group(1) and match.group(2).
link_replacer(text, href) == <<"<", "a", " ", "h", "r", "e", "f", "=", "\"">> \o RewriteHref(href) \o <<"\"", ">">> \o text \o <<"<", "/", "a", ">">>

\* \[([^\]]+)\]\(([^\)]+)\) matches at position i of s with the "]" at
\* position close: a "[" at i, then one character or more up to the first
\* "]", then "(", then one character or more up to the first ")".
BracketsAt(s, i, close, min_text) ==
    /\ i <= Len(s)
    /\ s[i] = "["
    /\ close >= i + 1 + min_text
    /\ close + 1 <= Len(s)
    /\ s[close + 1] = "("
    /\ FirstIndex(s, ")", close + 2) >= close + 3

\* The text between the brackets of a match, and the target between the
\* parentheses.
BracketText(s, i, close) == SubSeq(s, i + 1, close - 1)

BracketTarget(s, close) == SubSeq(s, close + 2, FirstIndex(s, ")", close + 2) - 1)

\* What follows a match.
AfterBrackets(s, close) == SubSeq(s, FirstIndex(s, ")", close + 2) + 1, Len(s))

\* The link pattern matches at position i.
LinkAt(s, i) == BracketsAt(s, i, FirstIndex(s, "]", i + 1), 1)

\* The first link, at position i, replaced, and the substitution carried on
\* after it.
RECURSIVE Links(_)
LinksFrom(s, i) ==
    SubSeq(s, 1, i - 1)
        \o link_replacer(BracketText(s, i, FirstIndex(s, "]", i + 1)),
                         BracketTarget(s, FirstIndex(s, "]", i + 1)))
        \o Links(AfterBrackets(s, FirstIndex(s, "]", i + 1)))

\* re.sub(r"\[([^\]]+)\]\(([^\)]+)\)", _link_replacer, html)
Links(s) ==
    IF \E i \in 1..Len(s) : LinkAt(s, i)
    THEN LinksFrom(s, Least({i \in 1..Len(s) : LinkAt(s, i)}))
    ELSE s

\* r'<img src="\2" alt="\1">'
ImageElement(alt, src) == <<"<", "i", "m", "g", " ", "s", "r", "c", "=", "\"">> \o src \o <<"\"", " ", "a", "l", "t", "=", "\"">> \o alt \o <<"\"", ">">>

\* The image pattern matches at position i.
ImageAt(s, i) == s[i] = "!" /\ BracketsAt(s, i + 1, FirstIndex(s, "]", i + 2), 0)

\* The first image, at position i, replaced, and the substitution carried on
\* after it.
RECURSIVE Images(_)
ImagesFrom(s, i) ==
    SubSeq(s, 1, i - 1)
        \o ImageElement(BracketText(s, i + 1, FirstIndex(s, "]", i + 2)),
                        BracketTarget(s, FirstIndex(s, "]", i + 2)))
        \o Images(AfterBrackets(s, FirstIndex(s, "]", i + 2)))

\* re.sub(r"!\[([^\]]*)\]\(([^\)]+)\)", r'<img src="\2" alt="\1">', html)
Images(s) ==
    IF \E i \in 1..Len(s) : ImageAt(s, i)
    THEN ImagesFrom(s, Least({i \in 1..Len(s) : ImageAt(s, i)}))
    ELSE s

\* One line under re.sub(r"^{prefix}(.+)$", r"{open}\1{close}", ...).
WrapLine(line, prefix, open, close) ==
    IF OccursAt(line, prefix, 1) /\ Len(line) > Len(prefix)
    THEN open \o SubSeq(line, Len(prefix) + 1, Len(line)) \o close
    ELSE line

WrapLines(lines, prefix, open, close) ==
    Join([i \in 1..Len(lines) |-> WrapLine(lines[i], prefix, open, close)], NL)

\* The "Unordered lists" substitutions: "* " items, "- " items, then adjacent
\* one-item lists joined.
UnorderedLists(s) ==
    Replace(WrapLines(Lines(WrapLines(Lines(s), <<"*", " ">>, <<"<", "u", "l", ">", "<", "l", "i", ">">>, <<"<", "/", "l", "i", ">", "<", "/", "u", "l", ">">>)),
                      <<"-", " ">>, <<"<", "u", "l", ">", "<", "l", "i", ">">>, <<"<", "/", "l", "i", ">", "<", "/", "u", "l", ">">>),
            <<"<", "/", "u", "l", ">", "\n", "<", "u", "l", ">">>, NL)

\* The length of the run of digits a line starts with.
DigitRun(line) ==
    Cardinality({n \in 1..Len(line) : \A i \in 1..n : IsDigit(line[i])})

\* One line under re.sub(r"^\d+\. (.+)$", r"<ol><li>\1</li></ol>", ...).
OrderedLine(line) ==
    IF DigitRun(line) >= 1 /\ OccursAt(line, <<".", " ">>, DigitRun(line) + 1)
                           /\ Len(line) > DigitRun(line) + 2
    THEN <<"<", "o", "l", ">", "<", "l", "i", ">">> \o SubSeq(line, DigitRun(line) + 3, Len(line)) \o <<"<", "/", "l", "i", ">", "<", "/", "o", "l", ">">>
    ELSE line

OrderedLines(lines) == Join([i \in 1..Len(lines) |-> OrderedLine(lines[i])], NL)

\* The "Ordered lists (basic)" substitutions.
OrderedLists(s) == Replace(OrderedLines(Lines(s)), <<"<", "/", "o", "l", ">", "\n", "<", "o", "l", ">">>, NL)

\* The "Blockquotes" substitutions.
Blockquotes(s) ==
    Replace(WrapLines(Lines(s), <<"&", "g", "t", ";", " ">>, <<"<", "b", "l", "o", "c", "k", "q", "u", "o", "t", "e", ">">>, <<"<", "/", "b", "l", "o", "c", "k", "q", "u", "o", "t", "e", ">">>),
            <<"<", "/", "b", "l", "o", "c", "k", "q", "u", "o", "t", "e", ">", "\n", "<", "b", "l", "o", "c", "k", "q", "u", "o", "t", "e", ">">>, NL)

\* The length of the run of word characters that starts at position from.
WordRun(s, from) ==
    Cardinality({n \in 1..(Len(s) - from + 1) : \A i \in from..(from + n - 1) : IsWordChar(s[i])})

\* Where the ([\s\S]*?) that starts at position from ends: the first position
\* at or after from where delim occurs; 0 if none.
LazyCloseAny(s, delim, from) ==
    LET ends == {j \in from..Len(s) : OccursAt(s, delim, j)}
    IN  IF ends = {} THEN 0 ELSE CHOOSE j \in ends : \A k \in ends : j <= k

\* _code_block_replacer(match), lang and code being match.group(1) and
\* match.group(2).
code_block_replacer(lang, code) ==
    IF lang = <<"m", "e", "r", "m", "a", "i", "d">> THEN <<"<", "d", "i", "v", " ", "c", "l", "a", "s", "s", "=", "\"", "m", "e", "r", "m", "a", "i", "d", "\"", ">">> \o code \o <<"<", "/", "d", "i", "v", ">">>
    ELSE IF lang # <<>>
         THEN <<"<", "p", "r", "e", ">", "<", "c", "o", "d", "e", " ", "c", "l", "a", "s", "s", "=", "\"", "l", "a", "n", "g", "u", "a", "g", "e", "-">> \o lang \o <<"\"", ">">> \o code \o <<"<", "/", "c", "o", "d", "e", ">", "<", "/", "p", "r", "e", ">">>
         ELSE <<"<", "p", "r", "e", ">", "<", "c", "o", "d", "e", ">">> \o code \o <<"<", "/", "c", "o", "d", "e", ">", "<", "/", "p", "r", "e", ">">>

\* ```(\w*)\n([\s\S]*?)``` matches at position i of s: the fence, the run of
\* word characters after it, a line break, and a closing fence further on.
FenceAt(s, i) ==
    /\ OccursAt(s, Fence, i)
    /\ OccursAt(s, NL, i + 3 + WordRun(s, i + 3))
    /\ LazyCloseAny(s, Fence, i + 4 + WordRun(s, i + 3)) # 0

\* The first code block, at position i, replaced, and the substitution carried
\* on after it.
RECURSIVE CodeBlocks(_)
CodeBlocksFrom(s, i) ==
    SubSeq(s, 1, i - 1)
        \o code_block_replacer(
               SubSeq(s, i + 3, i + 2 + WordRun(s, i + 3)),
               SubSeq(s, i + 4 + WordRun(s, i + 3),
                      LazyCloseAny(s, Fence, i + 4 + WordRun(s, i + 3)) - 1))
        \o CodeBlocks(SubSeq(s, LazyCloseAny(s, Fence, i + 4 + WordRun(s, i + 3)) + 3,
                             Len(s)))

\* re.sub(r"```(\w*)\n([\s\S]*?)```", _code_block_replacer, html)
CodeBlocks(s) ==
    IF \E i \in 1..Len(s) : FenceAt(s, i)
    THEN CodeBlocksFrom(s, Least({i \in 1..Len(s) : FenceAt(s, i)}))
    ELSE s

\* `([^`]+)` matches at position i.
InlineCodeAt(s, i) == s[i] = Backtick /\ FirstIndex(s, Backtick, i + 1) >= i + 2

\* The first inline code span, at position i, replaced, and the substitution
\* carried on after it.
RECURSIVE InlineCode(_)
InlineCodeFrom(s, i) ==
    SubSeq(s, 1, i - 1)
        \o <<"<", "c", "o", "d", "e", ">">> \o SubSeq(s, i + 1, FirstIndex(s, Backtick, i + 1) - 1) \o <<"<", "/", "c", "o", "d", "e", ">">>
        \o InlineCode(SubSeq(s, FirstIndex(s, Backtick, i + 1) + 1, Len(s)))

\* re.sub(r"`([^`]+)`", r"<code>\1</code>", html)
InlineCode(s) ==
    IF \E i \in 1..Len(s) : InlineCodeAt(s, i)
    THEN InlineCodeFrom(s, Least({i \in 1..Len(s) : InlineCodeAt(s, i)}))
    ELSE s

\* The last position at or before to where the character c is; 0 if none.
LastIndex(s, c, to) ==
    LET at == {j \in 1..to : s[j] = c}
    IN  IF at = {} THEN 0 ELSE CHOOSE j \in at : \A k \in at : j >= k

\* \|.*\| matches from position b: a "|" at b and another one later in the line.
RowAt(s, b) == b <= Len(s) /\ s[b] = "|" /\ LastIndex(s, "|", LineEnd(s, b)) > b

\* \|.*\|\n matches from position b: the row runs to the end of its line, and
\* the line is ended by a line break.
FullRowAt(s, b) ==
    RowAt(s, b) /\ s[LineEnd(s, b)] = "|" /\ LineEnd(s, b) < Len(s)

\* \|[-:| ]+\|\n matches from position b.
SeparatorAt(s, b) ==
    /\ FullRowAt(s, b)
    /\ LineEnd(s, b) >= b + 2
    /\ \A i \in (b + 1)..LineEnd(s, b) : s[i] \in {"-", ":", "|", " "}

\* The table pattern matches from position p: header row, separator row and
\* a first body row.
TableAt(s, p) ==
    /\ p >= 1
    /\ FullRowAt(s, p)
    /\ SeparatorAt(s, LineEnd(s, p) + 2)
    /\ RowAt(s, LineEnd(s, LineEnd(s, p) + 2) + 2)

\* Where (\|.*\|\n?)+ ends when its next row starts at position b: each row
\* runs to the last "|" of its line, and the next row is tried only after a
\* line break.
RECURSIVE BodyEnd(_, _)
BodyEnd(s, b) ==
    IF LastIndex(s, "|", LineEnd(s, b)) = LineEnd(s, b) /\ LineEnd(s, b) < Len(s)
    THEN IF RowAt(s, LineEnd(s, b) + 2)
         THEN BodyEnd(s, LineEnd(s, b) + 2)
         ELSE LineEnd(s, b) + 1
    ELSE LastIndex(s, "|", LineEnd(s, b))

\* The last position of the match that starts at p.
TableEnd(s, p) == BodyEnd(s, LineEnd(s, LineEnd(s, p) + 2) + 2)

\* cols = [c.strip() for c in row.strip("|").split("|")]
RowCols(row) ==
    [i \in 1..Len(Split(StripChar(row, "|"), "|")) |->
        Strip(Split(StripChar(row, "|"), "|")[i])]

\* all(set(c) <= set("-: ") for c in cols)
IsSeparatorCols(cols) ==
    \A i \in 1..Len(cols) : \A k \in 1..Len(cols[i]) : cols[i][k] \in {"-", ":", " "}

\* "".join(f"<{tag}>{col}</{tag}>" for col in cols)
RECURSIVE CellsHtml(_, _)
CellsHtml(cols, tag) ==
    IF cols = <<>> THEN <<>>
    ELSE <<"<">> \o tag \o <<">">> \o cols[1] \o <<"<", "/">> \o tag \o <<">">> \o CellsHtml(Tail(cols), tag)

\* The loop body of _table_replacer for rows[i - 1] (i counts from 1 here).
RowHtml(row, i) ==
    IF i = 2 /\ IsSeparatorCols(RowCols(row)) THEN <<>>
    ELSE <<"<", "t", "r", ">">> \o CellsHtml(RowCols(row), IF i = 1 THEN <<"t", "h">> ELSE <<"t", "d">>) \o <<"<", "/", "t", "r", ">">>

RECURSIVE RowsHtml(_, _)
RowsHtml(rows, i) ==
    IF i > Len(rows) THEN <<>> ELSE RowHtml(rows[i], i) \o RowsHtml(rows, i + 1)

\* _table_replacer(match), text being match.group(0).
table_replacer(text) ==
    <<"<", "d", "i", "v", " ", "c", "l", "a", "s", "s", "=", "\"", "t", "a", "b", "l", "e", "-", "w", "r", "a", "p", "p", "e", "r", "\"", ">", "<", "t", "a", "b", "l", "e", ">">> \o RowsHtml(Lines(Strip(text)), 1)
        \o <<"<", "/", "t", "a", "b", "l", "e", ">", "<", "/", "d", "i", "v", ">">>

\* re.sub(r"\|.*\|\n\|[-:| ]+\|\n(\|.*\|\n?)+", _table_replacer, html)
RECURSIVE Tables(_)
Tables(s) ==
    IF s = <<>> THEN <<>>
    ELSE IF TableAt(s, FirstIndex(s, "|", 1))
         THEN SubSeq(s, 1, FirstIndex(s, "|", 1) - 1)
                  \o table_replacer(SubSeq(s, FirstIndex(s, "|", 1),
                                           TableEnd(s, FirstIndex(s, "|", 1))))
                  \o Tables(SubSeq(s, TableEnd(s, FirstIndex(s, "|", 1)) + 1, Len(s)))
         ELSE IF LineEnd(s, 1) < Len(s)
              THEN SubSeq(s, 1, LineEnd(s, 1) + 1)
                       \o Tables(SubSeq(s, LineEnd(s, 1) + 2, Len(s)))
              ELSE s

\* simple_md_to_html(md_content): the substitutions in the order of the source.
simple_md_to_html(md_content) ==
    Tables(InlineCode(CodeBlocks(Blockquotes(OrderedLists(UnorderedLists(
        Images(Links(BoldItalic(HorizontalRules(AllHeadings(
            RestoreDetails(EscapeHtml(md_content)))))))))))))

-----------------------------------------------------------------------------
(* simple_md_to_html on one document *)

\* body_html = simple_md_to_html(md_content)
CallSimpleMdToHtml ==
    /\ call.fn = "simple_md_to_html"
    /\ ~result.done
    /\ result' = [done |-> TRUE, html |-> simple_md_to_html(call.md)]
    /\ UNCHANGED <<call, buildVars, hrefVars, indexVars>>

NextMd == CallSimpleMdToHtml

\* Every sequence over S of length 1 to n.
WordsUpTo(S, n) == SeqsUpTo(S, n) \ {<<>>}

\* The longest heading text.
MaxHeadingLen == 3

HeadingChars == {"H", "i", "2", " ", "-", "!", "&"}

S_HelloWorld == <<"H", "e", "l", "l", "o", ",", " ", "W", "o", "r", "l", "d", "!", " ", "(", "v", "2", ")">>

HeadingTexts == WordsUpTo(HeadingChars, MaxHeadingLen) \cup {S_HelloWorld}

\* A document of one heading line: level times "#", a space, the text.
InitHeading ==
    /\ NotBuilding
    /\ href_in = [from |-> <<>>, to |-> <<>>]
    /\ href_out = [done |-> FALSE, href |-> <<>>]
    /\ index_in = <<>>
    /\ index_out = [done |-> FALSE, index |-> <<>>]
    /\ call \in {[fn |-> "simple_md_to_html", md |-> HeadingPrefix(level) \o text,
                  level |-> level, text |-> text] :
                    level \in 1..4, text \in HeadingTexts}
    /\ result = [done |-> FALSE, html |-> <<>>]

SpecHeading == InitHeading /\ [][NextMd]_vars

\* The longest link target, in pieces.
MaxTargetPieces == 5

TargetPieces == {<<"p">>, <<"s">>, DotMd, DotMd \o <<"#">>, <<"#">>}

LinkTargets == {Join(pieces, <<>>) : pieces \in WordsUpTo(TargetPieces, MaxTargetPieces)}

\* A document of one link: [text](target).
InitLink ==
    /\ NotBuilding
    /\ href_in = [from |-> <<>>, to |-> <<>>]
    /\ href_out = [done |-> FALSE, href |-> <<>>]
    /\ index_in = <<>>
    /\ index_out = [done |-> FALSE, index |-> <<>>]
    /\ call \in {[fn |-> "simple_md_to_html", md |-> <<"[">> \o text \o <<"]", "(">> \o target \o <<")">>,
                  text |-> text, target |-> target] :
                    text \in {<<"x">>}, target \in LinkTargets}
    /\ result = [done |-> FALSE, html |-> <<>>]

SpecLink == InitLink /\ [][NextMd]_vars

\* The most cells of a table row, and the most body rows of a table.
MaxCols == 2

MaxBodyRows == 2

TableCells == {<<>>, <<"A">>, <<" ", "b">>}

TableRows == WordsUpTo(TableCells, MaxCols)

SeparatorRows == {<<"|", "-", "|">>, <<"|", ":", "-", "|", "-", ":", "|">>, <<"|", " ", "-", " ", "|">>}

\* The row of the cells: a pipe, the cells separated by pipes, a pipe.
PipeRow(cells) == <<"|">> \o Join(cells, <<"|">>) \o <<"|">>

PipeRows(rows) == [i \in 1..Len(rows) |-> PipeRow(rows[i])]

\* A document of one table block: header row, separator row, body rows, each
\* on a line of its own, with or without a final line break.
InitTable ==
    /\ NotBuilding
    /\ href_in = [from |-> <<>>, to |-> <<>>]
    /\ href_out = [done |-> FALSE, href |-> <<>>]
    /\ index_in = <<>>
    /\ index_out = [done |-> FALSE, index |-> <<>>]
    /\ call \in {[fn |-> "simple_md_to_html",
                  md |-> Join(<<PipeRow(header), separator>> \o PipeRows(body), NL) \o last,
                  header |-> header, body |-> body] :
                    header \in TableRows, separator \in SeparatorRows,
                    body \in WordsUpTo(TableRows, MaxBodyRows), last \in {<<>>, NL}}
    /\ result = [done |-> FALSE, html |-> <<>>]

SpecTable == InitTable /\ [][NextMd]_vars

\* The longest directory name.
MaxDirNameLen == 5

DirNameChars == {"a", "B", "2", "-", "_"}

DirNameInputs == WordsUpTo(DirNameChars, MaxDirNameLen) \cup {<<"a", "p", "i">>, <<"c", "o", "r", "e", "-", "s", "e", "r", "v", "i", "c", "e", "s">>}

\* A directory name whose section title is to be derived.
InitPrettify ==
    /\ NotBuilding
    /\ href_in = [from |-> <<>>, to |-> <<>>]
    /\ href_out = [done |-> FALSE, href |-> <<>>]
    /\ index_in = <<>>
    /\ index_out = [done |-> FALSE, index |-> <<>>]
    /\ call \in {[fn |-> "prettify", dir_name |-> dir_name] : dir_name \in DirNameInputs}
    /\ result = [done |-> FALSE, title |-> <<>>]

\* pretty = dir_name.replace("-", " ").replace("_", " ") and the case rule
\* that follows it.
CallPrettify ==
    /\ call.fn = "prettify"
    /\ ~result.done
    /\ result' = [done |-> TRUE, title |-> Prettify(call.dir_name)]
    /\ UNCHANGED <<call, buildVars, hrefVars, indexVars>>

NextPrettify == CallPrettify

SpecPrettify == InitPrettify /\ [][NextPrettify]_vars

-----------------------------------------------------------------------------
(* HTML generation: breadcrumbs *)

\* build_breadcrumbs returns "".
NoTrail == [emitted |-> FALSE, crumbs |-> <<>>]

\* The <span> elements of the trail, by class and text.
Crumb(class, text) == [class |-> class, text |-> text]

HomeCrumb == Crumb("breadcrumb-home", <<>>)

SepCrumb == Crumb("breadcrumb-sep", <<>>)

\* for part in path: crumbs.append(separator); crumbs.append(item)
RECURSIVE PathCrumbs(_)
PathCrumbs(path) ==
    IF path = <<>> THEN <<>>
    ELSE <<SepCrumb, Crumb("breadcrumb-item", path[1])>> \o PathCrumbs(Tail(path))

\* A trail that names the section only, without the sections above it.
TrailWith_last(trail, title) == <<title>>

\* current_trail = trail + [sec["title"]]
TrailWith(trail, title) == Append(trail, title)

InPages(slug, sec) == \E i \in 1..Len(sec.pages) : sec.pages[i] = slug

\* _find_in_sections(secs, slug, trail): what it leaves in path, the empty
\* list when it returns False.
RECURSIVE find_in_sections(_, _, _)
find_in_sections(secs, slug, trail) ==
    IF secs = <<>> THEN <<>>
    ELSE IF InPages(slug, secs[1]) THEN TrailWith(trail, secs[1].title)
    ELSE IF find_in_sections(secs[1].subsections, slug, TrailWith(trail, secs[1].title)) # <<>>
         THEN find_in_sections(secs[1].subsections, slug, TrailWith(trail, secs[1].title))
         ELSE find_in_sections(Tail(secs), slug, trail)

\* The <nav class="breadcrumbs"> element of the path and the page title.
Trail(path, title) ==
    [emitted |-> TRUE,
     crumbs |-> <<HomeCrumb>> \o PathCrumbs(path)
                    \o <<SepCrumb, Crumb("breadcrumb-item breadcrumb-current", title)>>]

\* build_breadcrumbs(page, sections)
build_breadcrumbs(page, secs) ==
    IF ~secs.has \/ secs.list = <<>> THEN NoTrail
    ELSE IF find_in_sections(secs.list, page.slug, <<>>) = <<>> THEN NoTrail
    ELSE Trail(find_in_sections(secs.list, page.slug, <<>>), page.title)

\* The most sections of one list of the modelled section trees.
MaxSiblings == 2

NavSlugs == {<<"s">>, <<"t">>, <<"u">>}

NavPageLists == {<<>>, <<<<"s">>>>, <<<<"t">>>>}

Node(title, slugs, subs) == [title |-> title, pages |-> slugs, subsections |-> subs]

LeafTitles == <<<<"C">>, <<"D">>, <<"E">>, <<"F">>>>

\* The lists of at most MaxSiblings sections without subsections, titled by
\* position.
NavLeafLists ==
    UNION {{[i \in 1..n |-> Node(LeafTitles[i], ps[i], <<>>)] : ps \in [1..n -> NavPageLists]} :
              n \in 0..MaxSiblings}

TopTitles == <<<<"A">>, <<"B">>>>

\* The lists of at most two sections, titled by position, each with a list
\* of subsections.
NavTopLists ==
    UNION {{[i \in 1..n |-> Node(TopTitles[i], f[i].own, f[i].subs)] :
                f \in [1..n -> [own : {<<>>, <<<<"s">>>>}, subs : NavLeafLists]]} :
              n \in 0..2}

\* Trees of three levels: A over C over E, followed by B.
NavDeepTrees ==
    {<<Node(<<"A">>, p1, <<Node(<<"C">>, p2, <<Node(<<"E">>, p3, <<>>)>>)>>), Node(<<"B">>, p4, <<>>)>> :
        p1 \in NavPageLists, p2 \in NavPageLists, p3 \in NavPageLists, p4 \in NavPageLists}

\* The section trees: of two levels and of three levels; None and [] stand
\* for no tree.
NavTrees == NavTopLists \cup NavDeepTrees

NavSections == {NoSections} \cup {[has |-> TRUE, list |-> t] : t \in NavTrees}

NavPage(slug) == [slug |-> slug, title |-> <<"P">> \o slug, html_name |-> slug \o DotHtml]

\* A page and a section tree for build_breadcrumbs.
InitCrumbs ==
    /\ NotBuilding
    /\ href_in = [from |-> <<>>, to |-> <<>>]
    /\ href_out = [done |-> FALSE, href |-> <<>>]
    /\ index_in = <<>>
    /\ index_out = [done |-> FALSE, index |-> <<>>]
    /\ call \in {[fn |-> "build_breadcrumbs", page |-> NavPage(slug), sections |-> secs] :
                    slug \in NavSlugs, secs \in NavSections}
    /\ result = [done |-> FALSE, html |-> NoTrail]

CallBuildBreadcrumbs ==
    /\ call.fn = "build_breadcrumbs"
    /\ ~result.done
    /\ result' = [done |-> TRUE, html |-> build_breadcrumbs(call.page, call.sections)]
    /\ UNCHANGED <<call, buildVars, hrefVars, indexVars>>

NextCrumbs == CallBuildBreadcrumbs

SpecCrumbs == InitCrumbs /\ [][NextCrumbs]_vars

-----------------------------------------------------------------------------
(* HTML generation: hierarchical sidebar *)

\* page_map[slug]: the last page of the list with the slug.
PageOfSlug(page_list, slug) ==
    page_list[CHOOSE i \in 1..Len(page_list) :
                 /\ page_list[i].slug = slug
                 /\ \A j \in (i + 1)..Len(page_list) : page_list[j].slug # slug]

InPageMap(page_list, slug) == \E i \in 1..Len(page_list) : page_list[i].slug = slug

\* <li><a href="{href}"{active}>{title}</a></li>
NavLink(page, active_slug, current_html) ==
    [kind |-> "link",
     href |-> relative_href(current_html, page.html_name),
     active |-> page.slug = active_slug,
     title |-> page.title]

\* A sidebar whose groups open for their own pages only.
contains_active_own(sec, active_slug) == InPages(active_slug, sec)

\* _render_section._contains_active(sec)
RECURSIVE contains_active(_, _)
contains_active(sec, active_slug) ==
    \/ InPages(active_slug, sec)
    \/ \E i \in 1..Len(sec.subsections) : contains_active(sec.subsections[i], active_slug)

\* The links of "for slug in section["pages"]: if slug in page_map".
SectionLinks(slugs, page_list, active_slug, current_html) ==
    LET known == SelectSeq(slugs, LAMBDA slug : InPageMap(page_list, slug))
    IN  [i \in 1..Len(known) |->
            NavLink(PageOfSlug(page_list, known[i]), active_slug, current_html)]

\* _render_section(section, depth): the <li class="nav-section"> element, by
\* its <details> (open or not), its title, its links and its nested groups.
RECURSIVE render_section(_, _, _, _, _)
render_section(section, depth, page_list, active_slug, current_html) ==
    [kind |-> "section",
     depth |-> depth,
     open |-> contains_active(section, active_slug),
     title |-> section.title,
     links |-> SectionLinks(section.pages, page_list, active_slug, current_html),
     groups |-> [i \in 1..Len(section.subsections) |->
                    render_section(section.subsections[i], depth + 1, page_list,
                                   active_slug, current_html)]]

\* _collect_slugs over the sections: sectioned_slugs.
RECURSIVE collect_slugs(_)
collect_slugs(secs) ==
    IF secs = <<>> THEN {}
    ELSE {secs[1].pages[i] : i \in 1..Len(secs[1].pages)}
             \cup collect_slugs(secs[1].subsections) \cup collect_slugs(Tail(secs))

\* "Render any pages not in sections"
UnsectionedLinks(secs, page_list, active_slug, current_html) ==
    LET rest == SelectSeq(page_list, LAMBDA p : p.slug \notin collect_slugs(secs))
    IN  [i \in 1..Len(rest) |-> NavLink(rest[i], active_slug, current_html)]

\* build_hierarchical_nav_html(sections, pages, active_slug, current_html):
\* the items, in order.
build_hierarchical_nav_html(secs, page_list, active_slug, current_html) ==
    [i \in 1..Len(secs) |-> render_section(secs[i], 0, page_list, active_slug, current_html)]
        \o UnsectionedLinks(secs, page_list, active_slug, current_html)

NavPageListsOf == {<<NavPage(<<"s">>), NavPage(<<"t">>), NavPage(<<"u">>)>>, <<NavPage(<<"u">>), NavPage(<<"s">>)>>}

\* The sidebar of the active page: a section tree that is not empty ("if
\* sections:"), the page list and one of its pages.
InitNav ==
    /\ NotBuilding
    /\ href_in = [from |-> <<>>, to |-> <<>>]
    /\ href_out = [done |-> FALSE, href |-> <<>>]
    /\ index_in = <<>>
    /\ index_out = [done |-> FALSE, index |-> <<>>]
    /\ call \in {[fn |-> "build_hierarchical_nav_html", sections |-> secs, pages |-> page_list,
                  active_slug |-> page_list[k].slug, current_html |-> page_list[k].html_name] :
                    secs \in NavTrees \ {<<>>}, page_list \in NavPageListsOf, k \in 1..2}
    /\ result = [done |-> FALSE, html |-> <<>>]

CallBuildHierarchicalNav ==
    /\ call.fn = "build_hierarchical_nav_html"
    /\ ~result.done
    /\ result' = [done |-> TRUE,
                  html |-> build_hierarchical_nav_html(call.sections, call.pages,
                                                       call.active_slug, call.current_html)]
    /\ UNCHANGED <<call, buildVars, hrefVars, indexVars>>

NextNav == CallBuildHierarchicalNav

SpecNav == InitNav /\ [][NextNav]_vars

-----------------------------------------------------------------------------
(* HTML generation: the sidebar of a page *)

\* build_flat_nav_html(pages, active_slug, current_html): the items, in order.
build_flat_nav_html(page_list, active_slug, current_html) ==
    [i \in 1..Len(page_list) |-> NavLink(page_list[i], active_slug, current_html)]

\* "if sections:" -- neither None nor an empty list.
HasSections(secs) == secs.has /\ secs.list # <<>>

\* nav_html of render_page for current_page.
Sidebar(secs, page_list, current_page) ==
    IF HasSections(secs)
    THEN build_hierarchical_nav_html(secs.list, page_list, current_page.slug,
                                     current_page.html_name)
    ELSE build_flat_nav_html(page_list, current_page.slug, current_page.html_name)

-----------------------------------------------------------------------------
(* Table of contents extraction *)

\* ^(#{2,4})\s+(.+)$ matches at position i with n marks: a line start, n
\* "#", then whitespace (line breaks included) that leaves (.+) a character.
TocMatchAt(s, i, n) ==
    /\ AtLineStart(s, i)
    /\ i + n - 1 <= Len(s)
    /\ \A j \in i..(i + n - 1) : s[j] = "#"
    /\ SpaceRunEnds(s, i + n) # {}

TocStarts(s, from) == {i \in from..Len(s) : \E n \in 2..4 : TocMatchAt(s, i, n)}

\* len(match.group(1))
TocLevel(s, i) == CHOOSE n \in 2..4 : TocMatchAt(s, i, n)

\* The position in front of match.group(2): \s+ is greedy.
TocSpaceEnd(s, i) ==
    CHOOSE k \in SpaceRunEnds(s, i + TocLevel(s, i)) :
        \A y \in SpaceRunEnds(s, i + TocLevel(s, i)) : y <= k

\* The last position of the match that starts at i.
TocMatchEnd(s, i) == LineEnd(s, TocSpaceEnd(s, i) + 1)

\* {"level": level, "text": text, "anchor": anchor}
TocEntry(level, text) == [level |-> level, text |-> text, anchor |-> AnchorOf(text)]

\* The entries of the matches of re.finditer from position from on.
RECURSIVE TocFrom(_, _)
TocFrom(s, from) ==
    IF TocStarts(s, from) = {} THEN <<>>
    ELSE <<TocEntry(TocLevel(s, Least(TocStarts(s, from))),
                    Strip(SubSeq(s, TocSpaceEnd(s, Least(TocStarts(s, from))) + 1,
                                 TocMatchEnd(s, Least(TocStarts(s, from))))))>>
             \o TocFrom(s, TocMatchEnd(s, Least(TocStarts(s, from))) + 1)

\* extract_toc(md_content)
extract_toc(md_content) == TocFrom(md_content, 1)

\* The longest document of the table-of-contents check, in pieces.
MaxTocPieces == 4

TocPieces == {<<"#", "#">>, <<"#", "#", "#">>, <<"#">>, <<" ">>, <<"\t">>, NL, <<"A">>, <<"&">>, <<"<">>}

TocDocuments == {Join(pieces, <<>>) : pieces \in WordsUpTo(TocPieces, MaxTocPieces)}

\* A document whose table of contents and body render_page computes.
InitToc ==
    /\ NotBuilding
    /\ href_in = [from |-> <<>>, to |-> <<>>]
    /\ href_out = [done |-> FALSE, href |-> <<>>]
    /\ index_in = <<>>
    /\ index_out = [done |-> FALSE, index |-> <<>>]
    /\ call \in {[fn |-> "render_page", md |-> md] : md \in TocDocuments}
    /\ result = [done |-> FALSE, toc |-> <<>>, html |-> <<>>]

\* toc = extract_toc(md_content); body_html = simple_md_to_html(md_content)
CallExtractTocAndBody ==
    /\ call.fn = "render_page"
    /\ ~result.done
    /\ result' = [done |-> TRUE, toc |-> extract_toc(call.md),
                  html |-> simple_md_to_html(call.md)]
    /\ UNCHANGED <<call, buildVars, hrefVars, indexVars>>

NextToc == CallExtractTocAndBody

SpecToc == InitToc /\ [][NextToc]_vars

\* The longest image source, in pieces.
MaxSrcPieces == 3

SrcPieces == {<<"i">>, <<".", "p", "n", "g">>, DotMd, DotMd \o <<"#">>, <<"s">>}

ImageSources == {Join(pieces, <<>>) : pieces \in WordsUpTo(SrcPieces, MaxSrcPieces)}

AltTexts == {<<>>, <<"a">>, <<"a", " ", "b">>}

\* A document of one image: ![alt](src).
InitImage ==
    /\ NotBuilding
    /\ href_in = [from |-> <<>>, to |-> <<>>]
    /\ href_out = [done |-> FALSE, href |-> <<>>]
    /\ index_in = <<>>
    /\ index_out = [done |-> FALSE, index |-> <<>>]
    /\ call \in {[fn |-> "simple_md_to_html", md |-> <<"!", "[">> \o alt \o <<"]", "(">> \o src \o <<")">>,
                  alt |-> alt, src |-> src] :
                    alt \in AltTexts, src \in ImageSources}
    /\ result = [done |-> FALSE, html |-> <<>>]

SpecImage == InitImage /\ [][NextMd]_vars

\* The longest item text and the most lines of a list.
MaxItemLen == 3

MaxListLines == 2

ItemChars == {"a", " ", "*"}

ListMarkers == {<<"*", " ">>, <<"-", " ">>}

ListItems == {[marker |-> marker, text |-> text] :
                 marker \in ListMarkers, text \in WordsUpTo(ItemChars, MaxItemLen)}

ItemLines(items) == [i \in 1..Len(items) |-> items[i].marker \o items[i].text]

\* A document of one run of list lines, each a marker and a text.
InitList ==
    /\ NotBuilding
    /\ href_in = [from |-> <<>>, to |-> <<>>]
    /\ href_out = [done |-> FALSE, href |-> <<>>]
    /\ index_in = <<>>
    /\ index_out = [done |-> FALSE, index |-> <<>>]
    /\ call \in {[fn |-> "simple_md_to_html", md |-> Join(ItemLines(items), NL), items |-> items] :
                    items \in WordsUpTo(ListItems, MaxListLines)}
    /\ result = [done |-> FALSE, html |-> <<>>]

SpecList == InitList /\ [][NextMd]_vars

\* The longest content of a fenced block.
MaxFenceLen == 4

FenceChars == {"a", " ", Backtick}

FenceLangs == {<<>>, <<"p", "y">>, <<"m", "e", "r", "m", "a", "i", "d">>}

\* The contents of a fence: no run of three backticks, which would end it.
FenceContents == {code \in WordsUpTo(FenceChars, MaxFenceLen) : ~Contains(code, Fence)}

\* A document of one fenced block: the fence with its language, the content
\* on a line of its own, the closing fence.
InitFence ==
    /\ NotBuilding
    /\ href_in = [from |-> <<>>, to |-> <<>>]
    /\ href_out = [done |-> FALSE, href |-> <<>>]
    /\ index_in = <<>>
    /\ index_out = [done |-> FALSE, index |-> <<>>]
    /\ call \in {[fn |-> "simple_md_to_html",
                  md |-> Fence \o lang \o NL \o code \o NL \o Fence,
                  lang |-> lang, code |-> code] :
                    lang \in FenceLangs, code \in FenceContents}
    /\ result = [done |-> FALSE, html |-> <<>>]

SpecFence == InitFence /\ [][NextMd]_vars

\* The longest document of the escaping check, in pieces.
MaxHtmlPieces == 3

RawTags == {<<"<", "d", "e", "t", "a", "i", "l", "s", ">">>, <<"<", "/", "d", "e", "t", "a", "i", "l", "s", ">">>, <<"<", "s", "u", "m", "m", "a", "r", "y", ">">>, <<"<", "/", "s", "u", "m", "m", "a", "r", "y", ">">>}

HtmlPieces == RawTags \cup {<<"<", "d", "e", "t", "a", "i", "l", "s", " ">>, <<"<">>, <<">">>, <<"&">>, <<"b">>, <<"l", "t", ";">>, <<" ">>}

HtmlDocuments == {Join(pieces, <<>>) : pieces \in WordsUpTo(HtmlPieces, MaxHtmlPieces)}

\* A document of text, HTML metacharacters and tags.
InitEscape ==
    /\ NotBuilding
    /\ href_in = [from |-> <<>>, to |-> <<>>]
    /\ href_out = [done |-> FALSE, href |-> <<>>]
    /\ index_in = <<>>
    /\ index_out = [done |-> FALSE, index |-> <<>>]
    /\ call \in {[fn |-> "simple_md_to_html", md |-> md] : md \in HtmlDocuments}
    /\ result = [done |-> FALSE, html |-> <<>>]

SpecEscape == InitEscape /\ [][NextMd]_vars

-----------------------------------------------------------------------------
(* Properties *)

\* discover_pages has returned.
Discovering == pc = "start"

NoDuplicates(q) == \A i, j \in 1..Len(q) : i # j => q[i] # q[j]

IsPrefix(q, r) == Len(q) <= Len(r) /\ \A i \in 1..Len(q) : q[i] = r[i]

\* Every slug listed in a list of sections, sections in order, a section's own
\* pages before those of its subsections.
RECURSIVE SectionSlugs(_)
SectionSlugs(list) ==
    IF list = <<>> THEN <<>>
    ELSE list[1].pages \o SectionSlugs(list[1].subsections) \o SectionSlugs(Tail(list))

\* Every page entry of a list of section configs, in the same order.
RECURSIVE SectionConfigEntries(_)
SectionConfigEntries(cfgs) ==
    IF cfgs = <<>> THEN <<>>
    ELSE cfgs[1].pages \o SectionConfigEntries(cfgs[1].subsections)
                       \o SectionConfigEntries(Tail(cfgs))

\* The configuration is hierarchical (it produces the section tree).
Hierarchical(cfg) == cfg.present /\ "sections" \in cfg.keys

\* The configuration is flat.
Flat(cfg) == cfg.present /\ "pages" \in cfg.keys /\ "sections" \notin cfg.keys

\* The page entries the build reads from the configuration.
ConfigEntries(cfg) ==
    IF Hierarchical(cfg) THEN SectionConfigEntries(cfg.sections)
    ELSE IF Flat(cfg) THEN cfg.pages
    ELSE <<>>

\* The keys of the discovered files: relative path without the extension.
TreeKeys == {WithSuffix(f, <<>>) : f \in tree}

\* The entry names a file that cannot be resolved: neither its reference
\* without ".md" nor the base name of that reference is the key of a file.
CannotResolve(entry) ==
    /\ Replace(entry.file, DotMd, <<>>) \notin TreeKeys
    /\ PathStem(Replace(entry.file, DotMd, <<>>)) \notin TreeKeys

\* C1: the slugs of the pages returned by discover_pages are pairwise
\* distinct, whatever the input tree and the configuration.
C1_SlugsPairwiseDistinct ==
    ~Discovering => NoDuplicates(SlugsOf(pages))

\* C2: after a completed build every source document has its own rendered
\* page at its path with the extension swapped, and index.html is a redirect
\* to the first page that replaces no rendered page and does not target itself.
C2_OutputHoldsEveryPageAndRedirect ==
    pc = "done" =>
        /\ \A i \in 1..Len(pages) :
              /\ pages[i].html_name \in DOMAIN output
              /\ output[pages[i].html_name] = PageDoc(pages[i])
        /\ \A f \in tree : \E i \in 1..Len(pages) :
              pages[i].rel_path = f /\ pages[i].html_name = WithSuffix(f, DotHtml)
        /\ S_index_html \in DOMAIN output
        /\ output[S_index_html].kind = "redirect"
        /\ output[S_index_html].target = pages[1].html_name
        /\ output[S_index_html].target # S_index_html

\* A relative URL interpreted in a base directory: ".." leaves a directory,
\* any other segment enters one (or names the document).
RECURSIVE WalkSegments(_, _)
WalkSegments(dir, segs) ==
    IF segs = <<>> THEN dir
    ELSE IF segs[1] = S_up
         THEN WalkSegments(IF dir = <<>> THEN <<>> ELSE SubSeq(dir, 1, Len(dir) - 1),
                           Tail(segs))
         ELSE WalkSegments(Append(dir, segs[1]), Tail(segs))

ResolveHref(base_dir, href) == WalkSegments(base_dir, Split(href, "/"))

\* The ".." segments of a relative URL.
UpSegments(href) == SelectSeq(Split(href, "/"), LAMBDA x : x = S_up)

\* C3: relative_href(A, B) interpreted relative to the directory of A is
\* exactly B: as many ".." as A has directory components, then B unmodified.
C3_HrefResolvesToTarget ==
    href_out.done =>
        /\ ResolveHref(ParentParts(href_in.from), href_out.href) = Split(href_in.to, "/")
        /\ Len(UpSegments(href_out.href)) = Len(ParentParts(href_in.from))
        /\ href_out.href =
              Join([i \in 1..Len(ParentParts(href_in.from)) |-> S_up] \o <<href_in.to>>,
                   <<"/">>)

\* relative_href has linked a page five directories deep to a page in another
\* directory.
C3_Witness ==
    /\ href_out.done
    /\ Len(ParentParts(href_in.from)) = 5
    /\ Len(ParentParts(href_in.to)) = 2
    /\ ParentParts(href_in.to) # SubSeq(ParentParts(href_in.from), 1, 2)

\* C4: the page list holds each discovered .md file exactly once.
C4_EachFileExactlyOnce ==
    ~Discovering =>
        /\ \A f \in tree : Cardinality({i \in 1..Len(pages) : pages[i].rel_path = f}) = 1
        /\ \A i \in 1..Len(pages) : pages[i].rel_path \in tree

\* A hierarchical configuration that references one file from two sections and
\* another through the base name of the reference has been processed.
C4_Witness ==
    /\ pc = "discovered"
    /\ Hierarchical(config)
    /\ tree = {F_index, F_a, F_g_sl_s}
    /\ Cardinality({i \in 1..Len(ConfigEntries(config)) :
                       ConfigEntries(config)[i].file = R_index}) >= 2
    /\ \E i \in 1..Len(ConfigEntries(config)) : ConfigEntries(config)[i].file = R_x_sl_a
    /\ Len(pages) = 3

\* The stems of a list of entries: their references without ".md".
StemsOf(entries) == [i \in 1..Len(entries) |-> Replace(entries[i].file, DotMd, <<>>)]

\* C5: an entry that cannot be resolved is warned about and adds neither a
\* page nor a section slug; the build goes on, and every discovered file is in
\* the page list and is rendered.
C5_UnresolvedEntryIsSkipped ==
    /\ ~Discovering =>
          /\ warnings = StemsOf(SelectSeq(ConfigEntries(config), CannotResolve))
          /\ \A i \in 1..Len(pages) : pages[i].rel_path \in tree
          /\ \A f \in tree : \E i \in 1..Len(pages) : pages[i].rel_path = f
          /\ Len(pages) = Cardinality(tree)
          /\ sections.has /\ Hierarchical(config) =>
                /\ Len(SectionSlugs(sections.list)) + Len(warnings)
                      <= Len(ConfigEntries(config))
                /\ \A k \in 1..Len(SectionSlugs(sections.list)) :
                      \E i \in 1..Len(pages) : pages[i].slug = SectionSlugs(sections.list)[k]
    /\ exit_code = 1 => tree = {}
    /\ pc = "done" =>
          /\ exit_code = 0
          /\ \A f \in tree : \E k \in 1..Len(rendered) : rendered[k] = WithSuffix(f, DotHtml)

\* A build with a hierarchical configuration two of whose entries cannot be
\* resolved has run to its end.
C5_Witness ==
    /\ pc = "done"
    /\ Hierarchical(config)
    /\ Len(warnings) >= 2
    /\ Len(pages) >= 2
    /\ Len(rendered) = Len(pages)

\* C6: every discovered file is reachable by its base name: an entry whose
\* reference is the base name of a discovered file resolves (it is not warned
\* about) when no file has that name as its exact key.
C6_BaseNameResolves ==
    ~Discovering =>
        \A i \in 1..Len(ConfigEntries(config)) :
            (\E f \in tree : PathStem(f) = Replace(ConfigEntries(config)[i].file, DotMd, <<>>))
            => \A k \in 1..Len(warnings) :
                   warnings[k] # Replace(ConfigEntries(config)[i].file, DotMd, <<>>)

\* The directories that hold a page.
PageDirs == {pages[i].section_path : i \in 1..Len(pages)} \ {<<>>}

\* The place of a directory among the page directories in ascending order.
DirRank(d) == 1 + Cardinality({e \in PageDirs : StrLess(e, d)})

\* The slugs of the pages of one directory ("" for the root), in page order.
SlugsIn(d) == SlugsOf(SelectSeq(pages, LAMBDA p : p.section_path = d))

\* 1 when the Overview section is due, else 0.
OverviewCount == IF SlugsIn(<<>>) # <<>> THEN 1 ELSE 0

C8_SlugInAtMostOneSection ==
    (~Discovering /\ sections.has) => NoDuplicates(SectionSlugs(sections.list))

\* C9: zero pages end the build with a non-zero exit status, nothing rendered
\* and no redirect written; with a page the build runs to its end and exits 0.
C9_ExitStatus ==
    /\ (~Discovering /\ pages = <<>>) =>
          /\ pc \in {"discovered", "exited"}
          /\ exit_code = IF pc = "exited" THEN 1 ELSE NoExit
          /\ search_index = <<>>
          /\ rendered = <<>>
          /\ DOMAIN output = {}
    /\ (~Discovering /\ pages # <<>>) =>
          /\ pc \in {"discovered", "render", "done"}
          /\ pc = "render" => next_page \in 1..(Len(pages) + 1)
          /\ Len(rendered) = IF pc = "done" THEN Len(pages) ELSE next_page - 1
          /\ pc = "done" => S_index_html \in DOMAIN output
          /\ exit_code = IF pc = "done" THEN 0 ELSE NoExit

\* A build of an empty directory, whose configuration names a file, has exited.
C9_Witness ==
    /\ pc = "exited"
    /\ exit_code = 1
    /\ tree = {}
    /\ ConfigEntries(config) # <<>>

\* min(a, b)
Smaller(a, b) == IF a < b THEN a ELSE b

\* The entry carries the page's title and output path and the first 3000
\* characters of text, or all of text when it has fewer.
EntryOf(entry, page, text) ==
    /\ entry.title = page.title
    /\ entry.url = page.html_name
    /\ Len(entry.text) <= 3000
    /\ Len(entry.text) = Smaller(3000, Len(text))
    /\ IsPrefix(entry.text, text)

\* C10: the index has one entry per page, in page order, with the page's title
\* and output path and, as text, the first 3000 characters (all, if fewer) of
\* the page's extracted plain text.
C10_IndexEntryPerPage ==
    index_out.done =>
        /\ Len(index_out.index) = Len(index_in)
        /\ \A i \in 1..Len(index_in) :
              EntryOf(index_out.index[i], index_in[i],
                      extract_text_content(read_text(index_in[i].md_path)))

\* The index of three kinds of page: one with more extracted text than the
\* index keeps, one with exactly as much, one whose source is longer than the
\* limit and whose extracted text is shorter.
C10_Witness ==
    /\ index_out.done
    /\ Len(index_in) = 2
    /\ index_in[1].md_path = F_long
    /\ Len(index_out.index[1].text) = 3000
    /\ index_in[2].md_path = F_list
    /\ Len(read_text(F_list)) > 3000
    /\ Len(index_out.index[2].text) \in 1..2999

\* C11: nothing is rendered or written before discovery and the search index
\* are complete, and every page is rendered with the same complete page list,
\* the same section tree and the same search index: those the build holds.
C11_RenderAfterDiscoveryAndIndex ==
    /\ (rendered # <<>> \/ render_args # <<>> \/ DOMAIN output # {}) =>
          pc \in {"render", "done"}
    /\ pc \in {"render", "done"} =>
          /\ Len(pages) = Cardinality(tree)
          /\ Len(search_index) = Len(pages)
          /\ \A i \in 1..Len(pages) : search_index[i].url = pages[i].html_name
    /\ Len(render_args) = Len(rendered)
    /\ \A k \in 1..Len(render_args) :
          /\ render_args[k].page = pages[k].html_name
          /\ render_args[k].pages = pages
          /\ render_args[k].sections = sections
          /\ render_args[k].search_index_json = search_index

\* The last of three pages has been rendered, of a build with a section tree.
C11_Witness ==
    /\ pc = "render"
    /\ Len(render_args) = 3
    /\ Len(pages) = 3
    /\ sections.has

\* C12: two runs of the build on the same tree and configuration, whatever
\* order the file system lists the files in, yield the same page list, the
\* same section tree, the same search index and the same output documents.
C12_TwoRunsSameOutput ==
    (call.fn = "build_wiki" /\ result.done) =>
        result.runs[1].outcome = result.runs[2].outcome

\* Two runs over three files, listed in different orders, with a section tree.
C12_Witness ==
    /\ call.fn = "build_wiki"
    /\ result.done
    /\ result.runs[1].listing # result.runs[2].listing
    /\ Len(result.runs[1].outcome.pages) = 3
    /\ result.runs[1].outcome.sections.has
    /\ S_index_html \in DOMAIN result.runs[2].outcome.output

\* The number of places where t occurs in s.
Occurrences(s, t) == Cardinality({i \in 1..Len(s) : OccursAt(s, t, i)})

\* html is one heading element of the level with the id.
IsHeadingWithId(html, level, id) ==
    /\ OccursAt(html, <<"<", "h">> \o <<Digits[level + 1]>> \o <<" ", "i", "d", "=", "\"">> \o id \o <<"\"", ">">>, 1)
    /\ EndsWith(html, <<"<", "/", "h">> \o <<Digits[level + 1]>> \o <<">">>)
    /\ Occurrences(html, <<"<", "h">>) = 1
    /\ Occurrences(html, <<"<", "/", "h">>) = 1

\* C13: a line of 1 to 4 "#", a space and a text renders as one heading
\* element of that level whose id is the anchor of the text: the trimmed text
\* lowercased, without the characters that are neither word characters,
\* whitespace nor hyphens, whitespace runs turned into one hyphen, hyphens
\* trimmed at both ends.
C13_HeadingCarriesAnchorOfText ==
    (result.done /\ Strip(call.text) # <<>>) =>
        IsHeadingWithId(result.html, call.level, AnchorOf(Strip(call.text)))

AnchorElement(href, text) == <<"<", "a", " ", "h", "r", "e", "f", "=", "\"">> \o href \o <<"\"", ">">> \o text \o <<"<", "/", "a", ">">>

\* The target with its extension rewritten: a final .md, else the .md in
\* front of the first fragment marker that follows a .md.
ExtensionRewritten(target) ==
    IF EndsWith(target, DotMd) THEN SubSeq(target, 1, Len(target) - 3) \o DotHtml
    ELSE IF Find(target, DotMd \o <<"#">>, 1) # 0
         THEN LET i == Find(target, DotMd \o <<"#">>, 1)
              IN  SubSeq(target, 1, i - 1) \o DotHtml \o SubSeq(target, i + 3, Len(target))
    ELSE target

\* C14: the link [text](target) is emitted with the target whose final .md is
\* replaced by .html, or whose .md in front of a fragment marker is replaced
\* by .html with the fragment unchanged, and with any other target unchanged.
C14_LinkTargetRewritten ==
    result.done => result.html = AnchorElement(ExtensionRewritten(call.target), call.text)

RECURSIVE CellElements(_, _)
CellElements(cells, tag) ==
    IF cells = <<>> THEN <<>>
    ELSE <<"<">> \o tag \o <<">">> \o Strip(cells[1]) \o <<"<", "/">> \o tag \o <<">">> \o CellElements(Tail(cells), tag)

RowElement(cells, tag) == <<"<", "t", "r", ">">> \o CellElements(cells, tag) \o <<"<", "/", "t", "r", ">">>

RECURSIVE BodyRowElements(_)
BodyRowElements(rows) ==
    IF rows = <<>> THEN <<>> ELSE RowElement(rows[1], <<"t", "d">>) \o BodyRowElements(Tail(rows))

TableElement(header, body) ==
    <<"<", "d", "i", "v", " ", "c", "l", "a", "s", "s", "=", "\"", "t", "a", "b", "l", "e", "-", "w", "r", "a", "p", "p", "e", "r", "\"", ">", "<", "t", "a", "b", "l", "e", ">">> \o RowElement(header, <<"t", "h">>) \o BodyRowElements(body) \o <<"<", "/", "t", "a", "b", "l", "e", ">", "<", "/", "d", "i", "v", ">">>

\* C15: a block of a header row, a separator row and k >= 1 body rows renders
\* as one table of 1 + k rows, the first of header cells holding the header
\* row's cells in order, the others of body cells holding each body row's
\* cells in order, and no row for the separator.
C15_TableRowsHoldTheCells ==
    result.done => result.html = TableElement(call.header, call.body)

IsLetter(c) == IsLower(c) \/ IsUpper(c)

\* The directory name with every "-" and "_" replaced by a space.
Spaced(name) == [i \in 1..Len(name) |-> IF name[i] \in {"-", "_"} THEN " " ELSE name[i]]

\* Title case: the first letter of every word (a run of letters) is upper
\* case, its other letters are lower case, and the rest is unchanged.
IsTitleCaseOf(title, s) ==
    /\ Len(title) = Len(s)
    /\ \A i \in 1..Len(s) :
        title[i] = IF ~IsLetter(s[i]) THEN s[i]
                   ELSE IF i = 1 \/ ~IsLetter(s[i - 1]) THEN UpperChar(s[i])
                   ELSE LowerChar(s[i])

IsUpperCaseOf(title, s) ==
    /\ Len(title) = Len(s)
    /\ \A i \in 1..Len(s) : title[i] = UpperChar(s[i])

KeyOfPage(page) == WithSuffix(page.rel_path, <<>>)

\* The keys some entry of the configuration resolves to: the reference
\* without ".md", else its base name.
ConfigResolvedKeys ==
    {k \in TreeKeys :
        \E i \in 1..Len(ConfigEntries(config)) :
            \/ k = EntryStem(ConfigEntries(config)[i])
            \/ /\ EntryStem(ConfigEntries(config)[i]) \notin TreeKeys
               /\ k = PathStem(EntryStem(ConfigEntries(config)[i]))}

\* The pages of the files the configuration did not resolve, in page order.
UnresolvedPages == SelectSeq(pages, LAMBDA p : KeyOfPage(p) \notin ConfigResolvedKeys)

\* C17: the files the configuration did not resolve are the end of the page
\* list, in ascending order of their keys compared as strings.
C17_RemainingInKeyOrder ==
    ~Discovering =>
        /\ UnresolvedPages = SubSeq(pages, Len(pages) - Len(UnresolvedPages) + 1, Len(pages))
        /\ \A i, j \in 1..Len(UnresolvedPages) :
               i < j => StrLess(KeyOfPage(UnresolvedPages[i]), KeyOfPage(UnresolvedPages[j]))

\* The key the entry resolves to, as a set: the reference without ".md" when
\* it is a key, else its base name when that is a key, else nothing.
EntryKeys(entry) ==
    IF EntryStem(entry) \in TreeKeys THEN {EntryStem(entry)}
    ELSE IF PathStem(EntryStem(entry)) \in TreeKeys THEN {PathStem(EntryStem(entry))}
    ELSE {}

KeysOfEntries(entries) == UNION {EntryKeys(entries[i]) : i \in 1..Len(entries)}

\* The keys the entries resolve to, in order, without those in prior and
\* without repetition.
RECURSIVE FirstKeys(_, _)
FirstKeys(entries, prior) ==
    IF entries = <<>> THEN <<>>
    ELSE IF EntryKeys(entries[1]) # {} /\ EntryKeys(entries[1]) \cap prior = {}
         THEN <<CHOOSE k \in EntryKeys(entries[1]) : TRUE>>
                  \o FirstKeys(Tail(entries), prior \cup EntryKeys(entries[1]))
         ELSE FirstKeys(Tail(entries), prior)

SlugsOfKeys(keys) == [i \in 1..Len(keys) |-> slugify(keys[i])]

\* The section nodes mirror the section configs: as many, in the same order,
\* nested alike, each listing the pages its own entries are the first to
\* reference, prior being the keys referenced earlier in traversal order.
RECURSIVE Mirrors(_, _, _)
Mirrors(cfgs, secs, prior) ==
    /\ Len(secs) = Len(cfgs)
    /\ \A i \in 1..Len(cfgs) :
        /\ secs[i].title = IF cfgs[i].has_title THEN cfgs[i].title ELSE S_Untitled
        /\ secs[i].pages =
              SlugsOfKeys(FirstKeys(cfgs[i].pages,
                  prior \cup KeysOfEntries(SectionConfigEntries(SubSeq(cfgs, 1, i - 1)))))
        /\ Mirrors(cfgs[i].subsections, secs[i].subsections,
                   prior \cup KeysOfEntries(SectionConfigEntries(SubSeq(cfgs, 1, i - 1)))
                         \cup KeysOfEntries(cfgs[i].pages))

\* C18: with a hierarchical configuration the section tree discover_pages
\* returns has the nesting and the order of the configured sections, a node
\* for every configured section; each resolved page is listed under the
\* first section, in traversal order, that references it; and the page list
\* starts with these pages in traversal order.
C18_SectionTreeMirrorsConfig ==
    (pc = "discovered" /\ Hierarchical(config)) =>
        /\ sections.has
        /\ Mirrors(config.sections, sections.list, {})
        /\ IsPrefix(FirstKeys(ConfigEntries(config), {}),
                    [i \in 1..Len(pages) |-> KeyOfPage(pages[i])])

\* Discovery is over for a configuration whose first section references
\* index and a missing file, whose subsection resolves nothing and whose
\* second section references g/s and index again.
C18_Witness ==
    /\ pc = "discovered"
    /\ config = SectionsConfig(<<StrEntry(R_index), StrEntry(R_nope)>>,
                               <<StrEntry(R_x_sl_a), StrEntry(R_b)>>,
                               <<DictEntry(R_g_sl_s, S_Start), StrEntry(R_index)>>)
    /\ {F_index, F_g_sl_s} \subseteq tree
    /\ F_a \notin tree
    /\ Len(sections.list) = 2
    /\ sections.list[1].subsections[1].pages = <<>>
    /\ Len(sections.list[2].pages) = 1

\* The sections of a list in depth-first pre-order, each with the titles on
\* the path from the top level down to it.
RECURSIVE PreOrder(_, _)
PreOrder(secs, above) ==
    IF secs = <<>> THEN <<>>
    ELSE <<[path |-> Append(above, secs[1].title), pages |-> secs[1].pages]>>
             \o PreOrder(secs[1].subsections, Append(above, secs[1].title))
             \o PreOrder(Tail(secs), above)

\* The positions, in pre-order, of the sections that list the slug.
Holders(secs, slug) ==
    {n \in 1..Len(PreOrder(secs, <<>>)) :
        \E i \in 1..Len(PreOrder(secs, <<>>)[n].pages) : PreOrder(secs, <<>>)[n].pages[i] = slug}

FirstHolderPath(secs, slug) ==
    PreOrder(secs, <<>>)[CHOOSE n \in Holders(secs, slug) : \A m \in Holders(secs, slug) : n <= m].path

\* The texts of the trail without its separators and its home marker.
TrailTexts(crumbs) ==
    LET items == SelectSeq(crumbs, LAMBDA c : c.class \notin {"breadcrumb-sep", "breadcrumb-home"})
    IN  [i \in 1..Len(items) |-> items[i].text]

\* C19: the trail is the home marker, the titles of the sections on the path
\* to the first section, in depth-first pre-order, that lists the page's
\* slug, and the page's title as the terminal element; nothing is emitted if
\* no section lists the slug or there is no tree.
C19_BreadcrumbTrail ==
    result.done =>
        IF call.sections.has /\ Holders(call.sections.list, call.page.slug) # {}
        THEN /\ result.html.emitted
             /\ result.html.crumbs[1].class = "breadcrumb-home"
             /\ TrailTexts(result.html.crumbs)
                    = Append(FirstHolderPath(call.sections.list, call.page.slug), call.page.title)
             /\ result.html.crumbs[Len(result.html.crumbs)].class
                    = "breadcrumb-item breadcrumb-current"
             /\ \A i \in 2..Len(result.html.crumbs) :
                    result.html.crumbs[i].class # "breadcrumb-home"
        ELSE result.html = NoTrail

\* The trail of a page listed in a section of the third level and again in
\* a later top-level section.
C19_Witness ==
    /\ result.done
    /\ call.sections.has
    /\ call.sections.list \in NavDeepTrees
    /\ call.page.slug = <<"t">>
    /\ call.sections.list[1].pages = <<<<"s">>>>
    /\ call.sections.list[1].subsections[1].pages = <<>>
    /\ call.sections.list[1].subsections[1].subsections[1].pages = <<<<"t">>>>
    /\ call.sections.list[2].pages = <<<<"t">>>>
    /\ Len(result.html.crumbs) = 9

\* The slugs listed by the section or by any section below it.
SlugsUnder(sec) ==
    UNION {{PreOrder(<<sec>>, <<>>)[n].pages[i] : i \in 1..Len(PreOrder(<<sec>>, <<>>)[n].pages)} :
              n \in 1..Len(PreOrder(<<sec>>, <<>>))}

\* Every group of the list, at any depth, is open exactly when the slug is
\* listed by its section or below it, and is open when a group nested
\* directly in it is open.
RECURSIVE GroupsOpenAsStated(_, _, _)
GroupsOpenAsStated(groups, secs, slug) ==
    /\ Len(groups) = Len(secs)
    /\ \A i \in 1..Len(groups) :
        /\ groups[i].open <=> slug \in SlugsUnder(secs[i])
        /\ \A j \in 1..Len(groups[i].groups) : groups[i].groups[j].open => groups[i].open
        /\ GroupsOpenAsStated(groups[i].groups, secs[i].subsections, slug)

\* C20: a section group of the hierarchical sidebar, at any depth, is open if
\* and only if the active page's slug is in the section's page list or in
\* that of a descendant subsection; every ancestor of an open group is open.
C20_OpenIffContainsActive ==
    result.done =>
        GroupsOpenAsStated(SelectSeq(result.html, LAMBDA item : item.kind = "section"),
                           call.sections, call.active_slug)

\* The sidebar of page t, listed only in a section of the third level: that
\* group and its two ancestors are open, the other top-level group is not.
C20_Witness ==
    /\ result.done
    /\ call.sections \in NavDeepTrees
    /\ call.active_slug = <<"t">>
    /\ call.sections[1].pages = <<<<"s">>>>
    /\ call.sections[1].subsections[1].pages = <<>>
    /\ call.sections[1].subsections[1].subsections[1].pages = <<<<"t">>>>
    /\ call.sections[2].pages = <<<<"s">>>>
    /\ result.html[1].open
    /\ result.html[1].groups[1].open
    /\ result.html[1].groups[1].groups[1].open
    /\ ~result.html[2].open

\* The page the build rendered last, and its sidebar.
LastRendered == pages[next_page - 1]

SomeRendered == pc \in {"render", "done"} /\ next_page > 1

\* The links of a sidebar in the order they are emitted: the links of a
\* group before its nested groups.
RECURSIVE LinksOf(_)
LinksOf(items) ==
    IF items = <<>> THEN <<>>
    ELSE (IF items[1].kind = "link" THEN <<items[1]>>
          ELSE items[1].links \o LinksOf(items[1].groups)) \o LinksOf(Tail(items))

\* The number of links of the sidebar that lead from current to page.
LinksTo(links, current, page) ==
    Cardinality({k \in 1..Len(links) :
                    links[k].href = relative_href(current.html_name, page.html_name)})

\* Every page is linked once, the pages no section claims are the links
\* after the groups, and the one active link is that of the current page.
HierarchicalSidebarAsStated(items, current) ==
    /\ \A i \in 1..Len(pages) : LinksTo(LinksOf(items), current, pages[i]) = 1
    /\ Len(LinksOf(items)) = Len(pages)
    /\ \A k \in 1..Len(LinksOf(items)) :
           LinksOf(items)[k].active
               <=> LinksOf(items)[k].href = relative_href(current.html_name, current.html_name)
    /\ LET tail == SelectSeq(items, LAMBDA item : item.kind = "link")
           unclaimed == SelectSeq(pages, LAMBDA p :
                            \A n \in 1..Len(SectionSlugs(sections.list)) :
                                SectionSlugs(sections.list)[n] # p.slug)
       IN  /\ Len(tail) = Len(unclaimed)
           /\ \A k \in 1..Len(tail) :
                  tail[k].href = relative_href(current.html_name, unclaimed[k].html_name)
           /\ \A k \in 1..Len(items) :
                  items[k].kind = "link" => \A l \in k..Len(items) : items[l].kind = "link"

\* C21: in the hierarchical sidebar of a rendered page every page of the page
\* list appears as exactly one link, the pages no section claims after all
\* section groups, and exactly the link of the rendered page is active.
C21_EveryPageLinkedOnce ==
    (SomeRendered /\ HasSections(sections)) =>
        HierarchicalSidebarAsStated(Sidebar(sections, pages, LastRendered), LastRendered)

\* C22: in flat mode the sidebar of a rendered page has one entry per page, in
\* page-list order, each linking to relative_href(current page, that page),
\* and exactly the entry of the rendered page is marked active.
C22_FlatSidebarEntries ==
    (SomeRendered /\ ~HasSections(sections)) =>
        /\ Len(Sidebar(sections, pages, LastRendered)) = Len(pages)
        /\ \A i \in 1..Len(pages) :
            /\ Sidebar(sections, pages, LastRendered)[i].kind = "link"
            /\ Sidebar(sections, pages, LastRendered)[i].href
                   = relative_href(LastRendered.html_name, pages[i].html_name)
            /\ Sidebar(sections, pages, LastRendered)[i].active <=> i = next_page - 1

\* The level of the heading element that starts at position i of html, 0 if
\* none of level 2 to 4 does.
HeadingLevelAt(html, i) ==
    IF OccursAt(html, <<"<", "h", "2", " ", "i", "d", "=", "\"">>, i) THEN 2
    ELSE IF OccursAt(html, <<"<", "h", "3", " ", "i", "d", "=", "\"">>, i) THEN 3
    ELSE IF OccursAt(html, <<"<", "h", "4", " ", "i", "d", "=", "\"">>, i) THEN 4
    ELSE 0

\* The heading elements of level 2 to 4 of html in document order, each by
\* its level and its id.
RECURSIVE HeadingIdsFrom(_, _)
HeadingIdsFrom(html, from) ==
    IF \A i \in from..Len(html) : HeadingLevelAt(html, i) = 0 THEN <<>>
    ELSE LET i == Least({j \in from..Len(html) : HeadingLevelAt(html, j) # 0})
         IN  <<[level |-> HeadingLevelAt(html, i),
                id |-> SubSeq(html, i + 8, Find(html, <<"\"">>, i + 8) - 1)]>>
                 \o HeadingIdsFrom(html, i + 8)

\* C23: the entries of extract_toc correspond one to one, in document order,
\* to the heading elements of level 2 to 4 that simple_md_to_html emits for
\* the same text, each anchor being the id of its element, and every level
\* is 2, 3 or 4.
C23_TocMatchesHeadingIds ==
    result.done =>
        /\ Len(result.toc) = Len(HeadingIdsFrom(result.html, 1))
        /\ \A i \in 1..Len(result.toc) :
            /\ result.toc[i].level \in 2..4
            /\ i <= Len(HeadingIdsFrom(result.html, 1)) =>
                  /\ result.toc[i].level = HeadingIdsFrom(result.html, 1)[i].level
                  /\ result.toc[i].anchor = HeadingIdsFrom(result.html, 1)[i].id

ImgElement(src, alt) == <<"<", "i", "m", "g", " ", "s", "r", "c", "=", "\"">> \o src \o <<"\"", " ", "a", "l", "t", "=", "\"">> \o alt \o <<"\"", ">">>

\* C24: the image ![alt](src) renders as an image element with the source
\* src unchanged and the alt text alt, for an empty and for a non-empty alt;
\* it is not rendered as a link and its source is not rewritten.
C24_ImageElement ==
    result.done =>
        /\ result.html = ImgElement(call.src, call.alt)
        /\ ~Contains(result.html, <<"<", "a", " ", "h", "r", "e", "f">>)

\* html is one flat unordered list of n items.
IsFlatListOf(html, n) ==
    /\ OccursAt(html, <<"<", "u", "l", ">", "<", "l", "i", ">">>, 1)
    /\ EndsWith(html, <<"<", "/", "l", "i", ">", "<", "/", "u", "l", ">">>)
    /\ Occurrences(html, <<"<", "u", "l", ">">>) = 1
    /\ Occurrences(html, <<"<", "/", "u", "l", ">">>) = 1
    /\ Occurrences(html, <<"<", "l", "i", ">">>) = n
    /\ Occurrences(html, <<"<", "/", "l", "i", ">">>) = n

HasNoAsterisk(text) == \A i \in 1..Len(text) : text[i] # "*"

\* C25: a run of lines "* text" or "- text" renders as exactly one flat
\* unordered list with one item per line, whatever the texts contain, each
\* item containing its text.
C25_ListItemPerLine ==
    result.done =>
        /\ IsFlatListOf(result.html, Len(call.items))
        /\ \A i \in 1..Len(call.items) :
               HasNoAsterisk(call.items[i].text) =>
                   Contains(result.html, <<"<", "l", "i", ">">> \o call.items[i].text \o <<"<", "/", "l", "i", ">">>)

\* The code block, or the diagram container, of a language and a content.
FenceElement(lang, code) ==
    IF lang = <<"m", "e", "r", "m", "a", "i", "d">> THEN <<"<", "d", "i", "v", " ", "c", "l", "a", "s", "s", "=", "\"", "m", "e", "r", "m", "a", "i", "d", "\"", ">">> \o code \o <<"<", "/", "d", "i", "v", ">">>
    ELSE IF lang = <<>> THEN <<"<", "p", "r", "e", ">", "<", "c", "o", "d", "e", ">">> \o code \o <<"<", "/", "c", "o", "d", "e", ">", "<", "/", "p", "r", "e", ">">>
    ELSE <<"<", "p", "r", "e", ">", "<", "c", "o", "d", "e", " ", "c", "l", "a", "s", "s", "=", "\"", "l", "a", "n", "g", "u", "a", "g", "e", "-">> \o lang \o <<"\"", ">">> \o code \o <<"<", "/", "c", "o", "d", "e", ">", "<", "/", "p", "r", "e", ">">>

\* C26: the content of a fenced code block is emitted inside the code block
\* (or diagram container) unchanged by the inline-code substitution, also
\* when it holds backtick-delimited runs.
C26_FenceContentUnchanged ==
    result.done => result.html = FenceElement(call.lang, call.code \o NL)

\* The markup the converter itself emits for these documents.
ConverterTags == {<<"<", "b", "l", "o", "c", "k", "q", "u", "o", "t", "e", ">">>, <<"<", "/", "b", "l", "o", "c", "k", "q", "u", "o", "t", "e", ">">>}

\* Position i of html starts a tag that may be markup: one of the four
\* exact tags or a tag of the converter.
MarkupAt(html, i) == \E t \in RawTags \cup ConverterTags : OccursAt(html, t, i)

EntityAt(html, i) == \E e \in {<<"&", "a", "m", "p", ";">>, <<"&", "l", "t", ";">>, <<"&", "g", "t", ";">>} : OccursAt(html, e, i)

\* Position i of html ends a tag that starts at a "<".
ClosesTag(html, i) ==
    \E j \in 1..(i - 1) :
        /\ html[j] = "<"
        /\ \A k \in (j + 1)..(i - 1) : html[k] \notin {"<", ">"}

TagCount(s) == Occurrences(s, <<"<", "d", "e", "t", "a", "i", "l", "s", ">">>) + Occurrences(s, <<"<", "/", "d", "e", "t", "a", "i", "l", "s", ">">>)
                   + Occurrences(s, <<"<", "s", "u", "m", "m", "a", "r", "y", ">">>) + Occurrences(s, <<"<", "/", "s", "u", "m", "m", "a", "r", "y", ">">>)

\* C27: in the output every "<", ">" and "&" of the source is escaped, except
\* in the literal tags <details>, </details>, <summary> and </summary>, which
\* pass through; no other tag of the source, a listed tag with attributes
\* included, is markup in the output.
C27_OnlyListedTagsPass ==
    result.done =>
        /\ \A i \in 1..Len(result.html) :
            /\ result.html[i] = "<" => MarkupAt(result.html, i)
            /\ result.html[i] = ">" => ClosesTag(result.html, i)
            /\ result.html[i] = "&" => EntityAt(result.html, i)
        /\ \A t \in RawTags : Occurrences(result.html, t) = Occurrences(call.md, t)
        /\ Occurrences(result.html, <<"&", "a", "m", "p", ";">>) = Occurrences(call.md, <<"&">>)
        /\ Occurrences(result.html, <<"&", "l", "t", ";">>) = Occurrences(call.md, <<"<">>) - TagCount(call.md)

\* A document with a listed tag, the same tag with an attribute and a bare
\* "<" has been converted.
C27_Witness ==
    /\ result.done
    /\ \/ call.md = <<"<", "d", "e", "t", "a", "i", "l", "s", " ", "b", ">", "<", "d", "e", "t", "a", "i", "l", "s", ">", "<">>
       \/ call.md = <<"<", "d", "e", "t", "a", "i", "l", "s", ">", "&", "<", "/", "d", "e", "t", "a", "i", "l", "s", ">">>
       \/ call.md = <<"<", "b", ">">>

====
